---- MODULE Spec2Model ----
(***************************************************************************)
(* Biz_Pilot_AI: the tool-calling orchestration loop (utils/llm.py), the   *)
(* daily search quota (utils/research.py), the Redis cache store           *)
(* (utils/redis_cache.py) and the cache-wrapped file operations            *)
(* (utils/file_handler.py, utils/analytics.py, utils/forecast.py).         *)
(*                                                                         *)
(* Each subsystem has its own specification over the shared variables:     *)
(*   SpecLoop   one invocation of call_llm_with_functions                  *)
(*   SpecQuota  threads of the web server sharing one SearchManager        *)
(*   SpecQuotaSeq  the same SearchManager used by one caller at a time     *)
(*   SpecIncr   clients calling increment on one RedisCache store          *)
(*   SpecPattern  delete_pattern over a store of analytics keys            *)
(*   SpecFilesSeq, SpecFiles  file requests over the blob container and    *)
(*              the cache, one at a time and from concurrent workers       *)
(*   SpecClient  get / set / delete of one RedisCache client               *)
(*   SpecStartup  construction of the client and its disabled mode         *)
(*   SpecExec   single calls of execute_function (main.py)                 *)
(*   SpecAssistant  the loop with execute_function as its executor         *)
(*   SpecKeys   _generate_key applied to pairs of argument tuples          *)
(*   SpecOrdered  the file endpoints of one user, one request per thread,  *)
(*              with the order in which the requests are made              *)
(*   SpecRate   check_rate_limit for the requests of one user              *)
(*   SpecLimiter  check_rate_limit called by concurrent request threads    *)
(*   SpecResearch  do_market_research_cached, one research pass at a time  *)
(*   SpecScan   delete_pattern over a filled store, its loop kept running  *)
(*   SpecFailing  analyses and forecasts whose computation can fail        *)
(*   SpecClear  clear_user_cache over a filled store                       *)
(*   SpecRestart  the SearchManager of one caller and restarts of the      *)
(*              process                                                    *)
(***************************************************************************)
EXTENDS Integers, Sequences, FiniteSets, TLC

VARIABLES
    \* ---- call_llm_with_functions (utils/llm.py) ----
    max_iterations,   \* the max_iterations argument
    context,          \* the context argument (a dict)
    messages,         \* the conversation sent to the provider
    iteration,        \* the for-loop variable
    loop_pc,          \* "request" | "dispatch" | "done"
    tool_calls,       \* message.tool_calls of the current response
    tc_index,         \* position of the inner for-loop in tool_calls
    next_call_id,     \* the provider's next tool-call id
    requests,         \* number of chat.completions.create calls made
    sent,             \* the conversation as passed to the last provider request
    dispatched,       \* the calls made to function_executor, in order
    outcome,          \* "running" | "answer" | "fallback" | "raised"
    response,         \* the returned "response" text
    all_tool_rounds,  \* every provider response so far requested a tool call
    \* ---- SearchManager (utils/research.py) ----
    today,            \* the date datetime.now() gives
    usage_data,       \* self.usage_data: [count, date]
    usage_gen,        \* identity of the dict self.usage_data refers to
    usage_file,       \* contents of search_usage.json, or NoFile
    q_pc,             \* per thread: position in search / get_usage_stats
    q_call,           \* per thread: "search" | "stats" | "none"
    q_today,          \* per thread: the local today of _reset_if_needed
    q_ref,            \* per thread: the dict the += statement loaded
    q_tmp,            \* per thread: the count the += statement read
    q_result,         \* per thread: how its last call ended
    recorded,         \* per date: successful searches stored into the counter of that date
    started,          \* calls begun (bounded by MaxSearches)
    resets,           \* number of counter resets performed
    first_date,       \* the date of the usage data at construction
    \* ---- RedisCache (utils/redis_cache.py) ----
    cache_enabled,    \* self.enabled and self.client
    store,            \* the Redis key space: key -> [val, exp] or Absent
    now,              \* the clock, in seconds
    advances,         \* number of clock steps taken
    i_pc,             \* per client: "idle" | "called" (inside increment)
    i_ttl,            \* per client: the ttl argument of its increment
    i_result,         \* per client: what its last increment returned
    incr_calls,       \* increments executed since the counter key was created
    incr_returns,     \* the values those increments returned
    incr_last,        \* time and ttl of the last executed increment
    cache_ops,        \* cache calls begun (bounded by MaxCacheOps)
    dp_pc,            \* delete_pattern: "idle" | "scanning" | "done"
    dp_pattern,       \* its pattern argument
    dp_batch,         \* its batch_size argument
    dp_unvisited,     \* keys the SCAN cursor has not passed yet
    dp_count,         \* its local count
    dp_result,        \* its return value
    dp_failed,        \* it ended in the exception handler
    dp_batches,       \* SCAN calls made
    dp_before,        \* the store when it was entered
    dp_start,         \* the time when it was entered
    dp_runs,          \* delete_pattern calls begun (bounded by MaxPatternRuns)
    blobs,            \* blob names present in the storage container
    uploaded,         \* blob names ever generated by an upload
    req,              \* per worker thread: the request it is handling
    file_requests,    \* file requests begun (bounded by MaxRequests)
    \* ---- RedisCache: construction and the get / set / delete methods ----
    conn_pc,          \* "new" | "connect" | "sleep" | "ready"
    attempt,          \* the loop variable of _initialize_connection
    pings,            \* connection attempts made
    failures,         \* connection attempts that raised
    sleeps,           \* the delays slept between attempts, in order
    api,              \* the last get / set / delete call and how it ended
    last_set,         \* per key: the last set still in force, or NoSet
    \* ---- execute_function (main.py) ----
    x_call,           \* the last call: function name, arguments, environment
    x_result,         \* what that call returned, or that it raised
    \* ---- RedisCache._generate_key ----
    key_pair,         \* two (prefix, arguments) tuples and the keys built from them
    \* ---- check_rate_limit (main.py) ----
    rl_times,         \* the times of the requests made to the endpoint, in order
    rl_verdict,       \* how the last check ended: "none" | "passed" | "429"
    rl_limit,         \* the limit argument of the checks
    rl_req,           \* per request thread: its position in check_rate_limit
    rl_log,           \* the increments in the order the server ran them
    \* ---- requests of the file endpoints in the order they are made ----
    began,            \* per worker thread: the workers whose request had returned when its own began
    \* ---- do_market_research_cached (utils/research.py) ----
    r_cache,          \* the files of ./cache: per cache key a result and its mtime, or Absent
    r_pass,           \* the market-research request being served, or the last one served
    r_started,        \* market-research requests begun (bounded by MaxResearch)
    \* ---- clear_user_cache (utils/file_handler.py) ----
    cu_call           \* the last clear_user_cache call: user, store before it, what it returned

loopVars == <<max_iterations, context, messages, iteration, loop_pc, tool_calls,
              tc_index, next_call_id, requests, sent, dispatched, outcome,
              response, all_tool_rounds>>

quotaVars == <<today, usage_data, usage_gen, usage_file, q_pc, q_call, q_today,
               q_ref, q_tmp, q_result, recorded, started, resets, first_date>>

dpVars == <<dp_pc, dp_pattern, dp_batch, dp_unvisited, dp_count, dp_result,
            dp_failed, dp_batches, dp_before, dp_start, dp_runs>>

cacheVars == <<cache_enabled, store, now, advances, i_pc, i_ttl, i_result,
               incr_calls, incr_returns, incr_last, cache_ops, dpVars>>

\* What a file request leaves alone in the cache client.
cacheRestVars == <<cache_enabled, advances, i_pc, i_ttl, i_result, incr_calls,
                   incr_returns, incr_last, cache_ops, dpVars>>

fileVars == <<blobs, uploaded, req, file_requests>>

clientVars == <<conn_pc, attempt, pings, failures, sleeps, api, last_set>>

registryVars == <<x_call, x_result>>

keyVars == <<key_pair>>

rateVars == <<rl_times, rl_verdict, rl_limit, rl_req, rl_log>>

orderVars == <<began>>

researchVars == <<r_cache, r_pass, r_started>>

clearVars == <<cu_call>>

vars == <<loopVars, quotaVars, cacheVars, fileVars, clientVars, registryVars,
          keyVars, rateVars, orderVars, researchVars, clearVars>>

notLoopVars == <<quotaVars, cacheVars, fileVars, clientVars, registryVars, keyVars,
                 rateVars, orderVars, researchVars, clearVars>>

notQuotaVars == <<loopVars, cacheVars, fileVars, clientVars, registryVars, keyVars,
                  rateVars, orderVars, researchVars, clearVars>>

notCacheVars == <<loopVars, quotaVars, fileVars, clientVars, registryVars, keyVars,
                  rateVars, orderVars, researchVars, clearVars>>

notClientVars == <<loopVars, quotaVars, fileVars, registryVars, keyVars, rateVars, orderVars, researchVars, clearVars>>

notFileVars == <<loopVars, quotaVars, clientVars, registryVars, keyVars, rateVars, orderVars, researchVars, clearVars>>

notRegistryVars == <<loopVars, quotaVars, cacheVars, fileVars, clientVars, keyVars,
                     rateVars, orderVars, researchVars, clearVars>>

notKeyVars == <<loopVars, quotaVars, cacheVars, fileVars, clientVars, registryVars,
                rateVars, orderVars, researchVars, clearVars>>

\* What a rate-limit check leaves alone outside the store and the clock.
notRateVars == <<loopVars, quotaVars, fileVars, clientVars, registryVars, keyVars,
                orderVars, researchVars, clearVars>>

\* What clear_user_cache leaves alone outside the cache client.
notClearVars == <<loopVars, quotaVars, fileVars, clientVars, registryVars, keyVars,
                  rateVars, orderVars, researchVars>>

(***************************************************************************)
(* Bounds of the model                                                     *)
(***************************************************************************)
MaxIterations == 2     \* largest max_iterations argument explored
MaxCalls == 2          \* most tool calls in one provider response
MaxToolCalls == 3      \* most tool calls in one conversation
NumThreads == 2        \* request threads sharing the SearchManager
MaxSearches == 4       \* calls of search / get_usage_stats explored
MaxDay == 2            \* last date the clock reaches (it starts at 1)
NumClients == 2        \* clients calling increment concurrently
MaxCacheOps == 3       \* cache calls explored in one run
MaxAdvance == 1        \* clock steps explored in one run
MaxPatternRuns == 1    \* delete_pattern calls explored in one run
MaxBatch == 2          \* largest batch_size of delete_pattern explored
NumWorkers == 2        \* worker threads of the server's thread pool
MaxRequests == 3       \* file requests explored in one run
MaxClientCalls == 2    \* get / set / delete calls explored in one run
MaxOrdered == 3        \* requests whose order is followed, one per worker thread
MaxRateRequests == 4   \* requests of one user to one endpoint explored
MaxResearch == 2       \* market-research requests explored in one run

(***************************************************************************)
(* call_llm_with_functions                                                 *)
(***************************************************************************)
ApologyMessage == "I apologize, but I couldn't generate a response."
FallbackMessage ==
    "I've gathered a lot of information but need to stop here. Please ask a more specific question or break your request into smaller parts."

NoText == "None"
NoId == 0

\* The argument strings a model may put into tool_call.function.arguments.
ArgObjAttacker == "{\"user_id\": \"attacker\", \"filename\": \"f1\"}"
ArgObjPlain == "{\"filename\": \"f1\"}"
ArgNotJson == "{filename: f1"
ArgNotObject == "[\"f1\"]"
ArgStrings == {ArgObjAttacker, ArgObjPlain, ArgNotJson, ArgNotObject}

\* The (name, arguments) pairs the provider may request.
ToolRequests ==
    { <<"list_available_files", ArgObjAttacker>>,
      <<"list_available_files", ArgObjPlain>>,
      <<"analyze_sales_file", ArgNotJson>>,
      <<"analyze_sales_file", ArgNotObject>>,
      <<"no_such_function", ArgObjPlain>> }

\* json.loads: a JSONDecodeError, or the parsed value with its Python type.
JsonLoads(s) ==
    CASE s = ArgObjAttacker ->
            [ok |-> TRUE, type |-> "dict",
             value |-> [user_id |-> "attacker", filename |-> "f1"]]
      [] s = ArgObjPlain ->
            [ok |-> TRUE, type |-> "dict", value |-> [filename |-> "f1"]]
      [] s = ArgNotObject ->
            [ok |-> TRUE, type |-> "list", value |-> <<"f1">>]
      [] OTHER ->
            [ok |-> FALSE, type |-> "JSONDecodeError", value |-> <<>>]

\* dict.update with the caller's value winning; a faulty variant keeps the model's.
DictUpdateKeepOld(d, other) ==
    [k \in DOMAIN d \cup DOMAIN other |-> IF k \in DOMAIN d THEN d[k] ELSE other[k]]

\* d.update(other): every key of other is set to other's value.
DictUpdate(d, other) ==
    [k \in DOMAIN d \cup DOMAIN other |-> IF k \in DOMAIN other THEN other[k] ELSE d[k]]

Message(role, content, calls, id) ==
    [role |-> role, content |-> content, tool_calls |-> calls, tool_call_id |-> id]

UserMessage(prompt) == Message("user", prompt, <<>>, NoId)

AssistantMessage(content, calls) == Message("assistant", content, calls, NoId)

\* A faulty variant: it answers under an id the provider never issued.
ToolMessageWrongId(call, content) == Message("tool", content, <<>>, call.id + 1)

\* {"role": "tool", "tool_call_id": tool_call.id, "content": result_content}
ToolMessage(call, content) == Message("tool", content, <<>>, call.id)

\* The tool calls of a response, with the ids the provider assigns.
WithIds(reqs, first) ==
    [i \in 1..Len(reqs) |->
        [id |-> first + i - 1, name |-> reqs[i][1], arguments |-> reqs[i][2]]]

ResponsesWithTools ==
    UNION { [1..n -> ToolRequests] : n \in 1..MaxCalls }

Contexts == { [user_id |-> "owner"], <<>> }

InitLoop ==
    /\ max_iterations \in 0..MaxIterations
    /\ context \in Contexts
    /\ messages = <<UserMessage("prompt")>>
    /\ iteration = 0
    /\ loop_pc = "request"
    /\ tool_calls = <<>>
    /\ tc_index = 1
    /\ next_call_id = 1
    /\ requests = 0
    /\ sent = <<>>
    /\ dispatched = <<>>
    /\ outcome = "running"
    /\ response = NoText
    /\ all_tool_rounds = TRUE

\* A faulty variant: it leaves the round after any tool call.
AfterCallSkipsRest ==
    /\ loop_pc' = "request"
    /\ iteration' = iteration + 1
    /\ tc_index' = 1

\* After the last tool call of a round the outer loop moves to its next iteration.
AfterCall ==
    IF tc_index = Len(tool_calls)
    THEN /\ loop_pc' = "request"
         /\ iteration' = iteration + 1
         /\ tc_index' = 1
    ELSE /\ loop_pc' = "dispatch"
         /\ iteration' = iteration
         /\ tc_index' = tc_index + 1

\* A faulty variant: it returns the response's text as it is, empty or not.
ProviderAnswersRaw(content) ==
    /\ loop_pc = "request"
    /\ iteration < max_iterations
    /\ requests' = requests + 1
    /\ sent' = messages
    /\ outcome' = "answer"
    /\ response' = content
    /\ loop_pc' = "done"
    /\ all_tool_rounds' = FALSE
    /\ UNCHANGED <<max_iterations, context, messages, iteration, tool_calls,
                   tc_index, next_call_id, dispatched>>
    /\ UNCHANGED notLoopVars

\* The provider answers without tool calls: the loop returns its text.
ProviderAnswers(content) ==
    /\ loop_pc = "request"
    /\ iteration < max_iterations
    /\ requests' = requests + 1
    /\ sent' = messages
    /\ outcome' = "answer"
    /\ response' = IF content = "" THEN ApologyMessage ELSE content
    /\ loop_pc' = "done"
    /\ all_tool_rounds' = FALSE
    /\ UNCHANGED <<max_iterations, context, messages, iteration, tool_calls,
                   tc_index, next_call_id, dispatched>>
    /\ UNCHANGED notLoopVars

\* The provider requests tool calls: the assistant message is appended.
ProviderRequestsTools(reqs) ==
    /\ loop_pc = "request"
    /\ iteration < max_iterations
    /\ next_call_id - 1 + Len(reqs) <= MaxToolCalls
    /\ requests' = requests + 1
    /\ sent' = messages
    /\ tool_calls' = WithIds(reqs, next_call_id)
    /\ next_call_id' = next_call_id + Len(reqs)
    /\ messages' = Append(messages, AssistantMessage(NoText, tool_calls'))
    /\ tc_index' = 1
    /\ loop_pc' = "dispatch"
    /\ UNCHANGED <<max_iterations, context, iteration, dispatched, outcome,
                   response, all_tool_rounds>>
    /\ UNCHANGED notLoopVars

\* A faulty variant: it goes to the next iteration and asks the provider again.
ProviderFailsRetries ==
    /\ loop_pc = "request"
    /\ iteration < max_iterations
    /\ requests' = requests + 1
    /\ sent' = messages
    /\ iteration' = iteration + 1
    /\ UNCHANGED <<max_iterations, context, messages, loop_pc, tool_calls, tc_index,
                   next_call_id, dispatched, outcome, response, all_tool_rounds>>
    /\ UNCHANGED notLoopVars

\* chat.completions.create raises: the exception is re-raised.
ProviderFails ==
    /\ loop_pc = "request"
    /\ iteration < max_iterations
    /\ requests' = requests + 1
    /\ sent' = messages
    /\ outcome' = "raised"
    /\ loop_pc' = "done"
    /\ all_tool_rounds' = FALSE
    /\ UNCHANGED <<max_iterations, context, messages, iteration, tool_calls,
                   tc_index, next_call_id, dispatched, response>>
    /\ UNCHANGED notLoopVars

\* A faulty variant: it goes on without a tool message for the call.
ToolCallBadJsonSilent ==
    /\ loop_pc = "dispatch"
    /\ ~JsonLoads(tool_calls[tc_index].arguments).ok
    /\ AfterCall
    /\ UNCHANGED <<max_iterations, context, messages, tool_calls, next_call_id,
                   requests, sent, dispatched, outcome, response, all_tool_rounds>>
    /\ UNCHANGED notLoopVars

\* json.loads raises JSONDecodeError: an error tool message, then continue.
ToolCallBadJson ==
    /\ loop_pc = "dispatch"
    /\ ~JsonLoads(tool_calls[tc_index].arguments).ok
    /\ messages' = Append(messages,
                          ToolMessage(tool_calls[tc_index], "Invalid function arguments"))
    /\ AfterCall
    /\ UNCHANGED <<max_iterations, context, tool_calls, next_call_id, requests,
                   sent, dispatched, outcome, response, all_tool_rounds>>
    /\ UNCHANGED notLoopVars

\* json.loads returns a value that is no dict: .update raises AttributeError,
\* which the outer handler re-raises.
ToolCallNotObject ==
    /\ loop_pc = "dispatch"
    /\ JsonLoads(tool_calls[tc_index].arguments).ok
    /\ JsonLoads(tool_calls[tc_index].arguments).type # "dict"
    /\ outcome' = "raised"
    /\ loop_pc' = "done"
    /\ UNCHANGED <<max_iterations, context, messages, iteration, tool_calls,
                   tc_index, next_call_id, requests, sent, dispatched, response,
                   all_tool_rounds>>
    /\ UNCHANGED notLoopVars

\* The arguments are merged with the context and the executor is called; its
\* result, or the text of the exception it raised, becomes a tool message.
CallExecutor(raises) ==
    /\ loop_pc = "dispatch"
    /\ JsonLoads(tool_calls[tc_index].arguments).ok
    /\ JsonLoads(tool_calls[tc_index].arguments).type = "dict"
    /\ LET call == tool_calls[tc_index]
           function_args == DictUpdate(JsonLoads(call.arguments).value, context)
       IN  /\ dispatched' = Append(dispatched,
                                   [id |-> call.id, name |-> call.name,
                                    arguments |-> call.arguments,
                                    args |-> function_args])
           /\ messages' = Append(messages,
                                 ToolMessage(call, IF raises THEN "executor error"
                                                             ELSE "executor result"))
    /\ AfterCall
    /\ UNCHANGED <<max_iterations, context, tool_calls, next_call_id, requests,
                   sent, outcome, response, all_tool_rounds>>

\* The same with an executor whose effects are not looked at.
ToolCallExecute(raises) ==
    /\ CallExecutor(raises)
    /\ UNCHANGED notLoopVars

\* The for-loop is exhausted: the fallback message is returned.
LoopExhausted ==
    /\ loop_pc = "request"
    /\ iteration >= max_iterations
    /\ outcome' = "fallback"
    /\ response' = FallbackMessage
    /\ loop_pc' = "done"
    /\ UNCHANGED <<max_iterations, context, messages, iteration, tool_calls,
                   tc_index, next_call_id, requests, sent, dispatched,
                   all_tool_rounds>>
    /\ UNCHANGED notLoopVars

LoopStep ==
    \/ \E content \in {"", "final text"} : ProviderAnswers(content)
    \/ \E reqs \in ResponsesWithTools : ProviderRequestsTools(reqs)
    \/ ProviderFails
    \/ ToolCallBadJson
    \/ ToolCallNotObject
    \/ \E raises \in BOOLEAN : ToolCallExecute(raises)
    \/ LoopExhausted

(***************************************************************************)
(* SearchManager: the daily search quota                                   *)
(***************************************************************************)
DAILY_LIMIT == 100

Threads == 1..NumThreads

Days == 0..MaxDay

NoFile == [count |-> -1, date |-> -1]

\* Counts a usage file left by an earlier run of the program may hold.
FileCounts == {0, DAILY_LIMIT - 2}

\* A faulty variant: it lets one search more through.
CanSearchOffByOne(data) == data.count <= DAILY_LIMIT

\* _can_search
CanSearch(data) == data.count < DAILY_LIMIT

\* A faulty variant: it never sees a new day.
NeedsResetNever(data, day) == FALSE

\* the test of _reset_if_needed
NeedsReset(data, day) == data.date # day

\* A faulty variant: it starts from zero whatever the file holds.
LoadUsageFresh(file, day) == [count |-> 0, date |-> day]

\* _load_usage
LoadUsage(file, day) == IF file # NoFile THEN file ELSE [count |-> 0, date |-> day]

InitQuota ==
    /\ today = 1
    /\ usage_file \in {NoFile} \cup [count : FileCounts, date : {0, 1}]
    /\ usage_data = LoadUsage(usage_file, today)
    /\ usage_gen = 0
    /\ q_pc = [t \in Threads |-> "idle"]
    /\ q_call = [t \in Threads |-> "none"]
    /\ q_today = [t \in Threads |-> 0]
    /\ q_ref = [t \in Threads |-> 0]
    /\ q_tmp = [t \in Threads |-> 0]
    /\ q_result = [t \in Threads |-> "none"]
    /\ recorded = [d \in Days |-> IF d = usage_data.date THEN usage_data.count ELSE 0]
    /\ started = 0
    /\ resets = 0
    /\ first_date = usage_data.date

\* The SearchManager as constructed without a usage file, never called.
ParkedQuota ==
    /\ today = 1
    /\ usage_file = NoFile
    /\ usage_data = [count |-> 0, date |-> 1]
    /\ usage_gen = 0
    /\ q_pc = [t \in Threads |-> "idle"]
    /\ q_call = [t \in Threads |-> "none"]
    /\ q_today = [t \in Threads |-> 0]
    /\ q_ref = [t \in Threads |-> 0]
    /\ q_tmp = [t \in Threads |-> 0]
    /\ q_result = [t \in Threads |-> "none"]
    /\ recorded = [d \in Days |-> 0]
    /\ started = 0
    /\ resets = 0
    /\ first_date = 1

\* Midnight passes.
Tick ==
    /\ today < MaxDay
    /\ today' = today + 1
    /\ UNCHANGED <<usage_data, usage_gen, usage_file, q_pc, q_call, q_today, q_ref,
                   q_tmp, q_result, recorded, started, resets, first_date>>
    /\ UNCHANGED notQuotaVars

\* search() or get_usage_stats() is entered: _reset_if_needed reads the date
\* and compares it with the stored one.
BeginCall(t, call) ==
    /\ q_pc[t] = "idle"
    /\ started < MaxSearches
    /\ started' = started + 1
    /\ q_call' = [q_call EXCEPT ![t] = call]
    /\ q_today' = [q_today EXCEPT ![t] = today]
    /\ q_result' = [q_result EXCEPT ![t] = "none"]
    /\ q_pc' = [q_pc EXCEPT ![t] =
                  IF NeedsReset(usage_data, today) THEN "reset"
                  ELSE IF call = "search" THEN "check" ELSE "stats"]
    /\ UNCHANGED <<today, usage_data, usage_gen, usage_file, q_ref, q_tmp,
                   recorded, resets, first_date>>
    /\ UNCHANGED notQuotaVars

\* _reset_if_needed replaces the dict and saves it.
ResetUsage(t) ==
    /\ q_pc[t] = "reset"
    /\ usage_data' = [count |-> 0, date |-> q_today[t]]
    /\ usage_gen' = usage_gen + 1
    /\ usage_file' = usage_data'
    /\ resets' = resets + 1
    /\ q_pc' = [q_pc EXCEPT ![t] = IF q_call[t] = "search" THEN "check" ELSE "stats"]
    /\ UNCHANGED <<today, q_call, q_today, q_ref, q_tmp, q_result, recorded, started,
                   first_date>>
    /\ UNCHANGED notQuotaVars

\* get_usage_stats returns the count it reads.
ReturnStats(t) ==
    /\ q_pc[t] = "stats"
    /\ q_result' = [q_result EXCEPT ![t] = "stats"]
    /\ q_tmp' = [q_tmp EXCEPT ![t] = usage_data.count]
    /\ q_pc' = [q_pc EXCEPT ![t] = "idle"]
    /\ UNCHANGED <<today, usage_data, usage_gen, usage_file, q_call, q_today, q_ref,
                   recorded, started, resets, first_date>>
    /\ UNCHANGED notQuotaVars

\* The quota test of search(): over the limit it raises "quota exhausted".
CheckQuota(t) ==
    /\ q_pc[t] = "check"
    /\ IF CanSearch(usage_data)
       THEN /\ q_pc' = [q_pc EXCEPT ![t] = "request"]
            /\ UNCHANGED q_result
       ELSE /\ q_pc' = [q_pc EXCEPT ![t] = "idle"]
            /\ q_result' = [q_result EXCEPT ![t] = "quota exhausted"]
    /\ UNCHANGED <<today, usage_data, usage_gen, usage_file, q_call, q_today, q_ref,
                   q_tmp, recorded, started, resets, first_date>>
    /\ UNCHANGED notQuotaVars

\* requests.get: the search succeeds, or an exception ends the call.
ExternalRequest(t, ok) ==
    /\ q_pc[t] = "request"
    /\ IF ok
       THEN /\ q_pc' = [q_pc EXCEPT ![t] = "incr"]
            /\ UNCHANGED q_result
       ELSE /\ q_pc' = [q_pc EXCEPT ![t] = "idle"]
            /\ q_result' = [q_result EXCEPT ![t] = "search failed"]
    /\ UNCHANGED <<today, usage_data, usage_gen, usage_file, q_call, q_today, q_ref,
                   q_tmp, recorded, started, resets, first_date>>
    /\ UNCHANGED notQuotaVars

\* self.usage_data["count"] += 1, first half: the dict and its count are loaded.
IncrementLoad(t) ==
    /\ q_pc[t] = "incr"
    /\ q_ref' = [q_ref EXCEPT ![t] = usage_gen]
    /\ q_tmp' = [q_tmp EXCEPT ![t] = usage_data.count]
    /\ q_pc' = [q_pc EXCEPT ![t] = "store"]
    /\ UNCHANGED <<today, usage_data, usage_gen, usage_file, q_call, q_today,
                   q_result, recorded, started, resets, first_date>>
    /\ UNCHANGED notQuotaVars

\* Second half: the sum is stored into the dict that was loaded (a dict that
\* _reset_if_needed has replaced meanwhile is no longer read by anyone), and
\* _save_usage writes the current dict to the file.
IncrementStore(t) ==
    /\ q_pc[t] = "store"
    /\ IF q_ref[t] = usage_gen
       THEN /\ usage_data' = [usage_data EXCEPT !.count = q_tmp[t] + 1]
            /\ recorded' = [recorded EXCEPT ![usage_data.date] = @ + 1]
       ELSE UNCHANGED <<usage_data, recorded>>
    /\ usage_file' = usage_data'
    /\ q_result' = [q_result EXCEPT ![t] = "results"]
    /\ q_pc' = [q_pc EXCEPT ![t] = "idle"]
    /\ UNCHANGED <<today, usage_gen, q_call, q_today, q_ref, q_tmp, started,
                   resets, first_date>>
    /\ UNCHANGED notQuotaVars

\* The process is started again between two requests: SearchManager() is
\* constructed and loads the usage file the earlier one has left.
Restart ==
    /\ \A t \in Threads : q_pc[t] = "idle"
    /\ usage_data' = LoadUsage(usage_file, today)
    /\ q_call' = [t \in Threads |-> "constructed"]
    /\ q_today' = [t \in Threads |-> 0]
    /\ q_ref' = [t \in Threads |-> 0]
    /\ q_tmp' = [t \in Threads |-> 0]
    /\ q_result' = [t \in Threads |-> "none"]
    /\ UNCHANGED <<today, usage_gen, usage_file, q_pc, recorded, started, resets,
                   first_date>>
    /\ UNCHANGED notQuotaVars

QuotaStep(T) ==
    \/ Tick
    \/ \E t \in T, call \in {"search", "stats"} : BeginCall(t, call)
    \/ \E t \in T : ResetUsage(t)
    \/ \E t \in T : ReturnStats(t)
    \/ \E t \in T : CheckQuota(t)
    \/ \E t \in T, ok \in BOOLEAN : ExternalRequest(t, ok)
    \/ \E t \in T : IncrementLoad(t)
    \/ \E t \in T : IncrementStore(t)

(***************************************************************************)
(* RedisCache: keys, the Redis commands used, and the cache methods        *)
(***************************************************************************)
DEFAULT_TTL == 3600
ANALYTICS_TTL == 1800
FILE_LIST_TTL == 300
FORECAST_TTL == 3600
PREVIEW_TTL == 300
API_USAGE_TTL == 3600

\* Strings that take part in key building and glob matching are sequences
\* of characters.
S_analytics == <<"a", "n", "a", "l", "y", "t", "i", "c", "s">>
S_forecast == <<"f", "o", "r", "e", "c", "a", "s", "t">>
S_preview == <<"p", "r", "e", "v", "i", "e", "w">>
S_files == <<"f", "i", "l", "e", "s">>
S_api_usage == <<"a", "p", "i", "_", "u", "s", "a", "g", "e">>
S_star == <<"*">>

U1 == <<"u", "1">>
U2 == <<"u", "2">>
Users == {U1, U2}

\* Blob names are "{user_id}/{uuid}_{name}{ext}"; the rest after "/" is one letter here.
BlobA1 == U1 \o <<"/", "a">>
BlobB1 == U1 \o <<"/", "b">>
BlobA2 == U2 \o <<"/", "a">>
BlobNames == {BlobA1, BlobB1, BlobA2}

Digit(d) ==
    CASE d = 0 -> "0" [] d = 1 -> "1" [] d = 2 -> "2" [] d = 3 -> "3" [] d = 4 -> "4"
      [] d = 5 -> "5" [] d = 6 -> "6" [] d = 7 -> "7" [] d = 8 -> "8" [] d = 9 -> "9"

\* str(n) of a non-negative integer
RECURSIVE IntStr(_)
IntStr(n) == IF n < 10 THEN <<Digit(n)>> ELSE IntStr(n \div 10) \o <<Digit(n % 10)>>

\* ":".join(parts)
RECURSIVE Join(_)
Join(parts) ==
    IF Len(parts) = 0 THEN <<>>
    ELSE IF Len(parts) = 1 THEN parts[1]
    ELSE parts[1] \o <<":">> \o Join(Tail(parts))

\* A faulty variant: it builds the key from the first argument only.
GenerateKeyFirstArg(prefix, args) == Join(<<prefix, args[1]>>)

\* _generate_key(prefix, *args), the args already passed through str()
GenerateKey(prefix, args) == Join(<<prefix>> \o args)

\* The arguments keys are built from here: a user id, a blob name, a period
\* count, and a user id that contains the separator.
UserWithColon == U1 \o <<":">> \o BlobA1
KeyParts == {U1, BlobA1, IntStr(7), UserWithColon}
KeyPrefixes == {S_analytics, S_forecast}
\* the callers pass one argument (file list), two (analytics) or three (forecast)
KeyArities == 1..3
KeyTuples ==
    {[prefix |-> p, args |-> a] :
        p \in KeyPrefixes, a \in UNION {[1..n -> KeyParts] : n \in KeyArities}}

NoTuple == [prefix |-> <<>>, args |-> <<>>]
NoKeys == [left |-> NoTuple, right |-> NoTuple, left_key |-> <<>>, right_key |-> <<>>]

InitKeys == key_pair = NoKeys

\* Two computations build their keys.
BuildKeys(left, right) ==
    /\ key_pair = NoKeys
    /\ key_pair' = [left |-> left, right |-> right,
                    left_key |-> GenerateKey(left.prefix, left.args),
                    right_key |-> GenerateKey(right.prefix, right.args)]
    /\ UNCHANGED notKeyVars

ForgetKeys ==
    /\ key_pair # NoKeys
    /\ key_pair' = NoKeys
    /\ UNCHANGED notKeyVars

AnalyticsKey(user_id, blob_name) == GenerateKey(S_analytics, <<user_id, blob_name>>)
ForecastKey(user_id, blob_name, periods) ==
    GenerateKey(S_forecast, <<user_id, blob_name, IntStr(periods)>>)
FileListKey(user_id) == GenerateKey(S_files, <<user_id>>)
ApiUsageKey(user_id, endpoint) == GenerateKey(S_api_usage, <<user_id, endpoint>>)
\* f"preview:{user_id}:{blob_name}:{num_rows}"
PreviewKey(user_id, blob_name, num_rows) ==
    S_preview \o <<":">> \o user_id \o <<":">> \o blob_name \o <<":">> \o IntStr(num_rows)

\* Redis glob matching (stringmatchlen) for patterns of literals, "*" and "?".
RECURSIVE GlobMatch(_, _)
GlobMatch(pattern, s) ==
    IF pattern = <<>> THEN s = <<>>
    ELSE IF Head(pattern) = "*"
         THEN GlobMatch(Tail(pattern), s) \/ (s # <<>> /\ GlobMatch(pattern, Tail(s)))
    ELSE IF s = <<>> THEN FALSE
    ELSE IF Head(pattern) = "?" THEN GlobMatch(Tail(pattern), Tail(s))
    ELSE Head(pattern) = Head(s) /\ GlobMatch(Tail(pattern), Tail(s))

\* The forecast horizons and preview sizes requests ask for.
PeriodChoices == {7, 30}
RowChoices == {10}
S_endpoint == <<"a">>

\* Every key the modelled operations can touch.
StoreKeys ==
    {FileListKey(u) : u \in Users}
    \cup {AnalyticsKey(u, b) : u \in Users, b \in BlobNames}
    \cup {ForecastKey(u, b, p) : u \in Users, b \in BlobNames, p \in PeriodChoices}
    \cup {PreviewKey(u, b, n) : u \in Users, b \in BlobNames, n \in RowChoices}
    \cup {ApiUsageKey(u, S_endpoint) : u \in Users}

Never == -1
Absent == [absent |-> TRUE]
Nil == "None"
NoCount == -1

\* A key exists until its expiry time is reached.
Live(st, key, t) == st[key] # Absent /\ (st[key].exp = Never \/ st[key].exp > t)

\* GET
RedisGet(st, key, t) == IF Live(st, key, t) THEN st[key].val ELSE Nil

\* SETEX key ttl value
RedisSetex(st, key, ttl, value, t) ==
    [st EXCEPT ![key] = [val |-> value, exp |-> t + ttl]]

\* DEL of a set of keys
RedisDel(st, keys) == [k \in DOMAIN st |-> IF k \in keys THEN Absent ELSE st[k]]

\* A faulty variant: it increments without EXPIRE: the key keeps the lifetime it had.
RedisIncrNoExpire(st, key, amount, ttl, t) ==
    [st EXCEPT ![key] =
        [val |-> (IF Live(st, key, t) THEN st[key].val ELSE 0) + amount,
         exp |-> IF Live(st, key, t) THEN st[key].exp ELSE Never]]

\* MULTI; INCRBY key amount; EXPIRE key ttl; EXEC
RedisIncrExpire(st, key, amount, ttl, t) ==
    [st EXCEPT ![key] =
        [val |-> (IF Live(st, key, t) THEN st[key].val ELSE 0) + amount,
         exp |-> t + ttl]]

\* A faulty variant: it ignores MATCH.
ScanKeysUnfiltered(st, chunk, pattern, t) == {k \in chunk : Live(st, k, t)}

\* The keys one SCAN call returns for the slots it visits.
ScanKeys(st, chunk, pattern, t) ==
    {k \in chunk : Live(st, k, t) /\ GlobMatch(pattern, k)}

\* All live keys that match a pattern.
Matching(st, pattern, t) ==
    {k \in DOMAIN st : Live(st, k, t) /\ GlobMatch(pattern, k)}

EmptyStore == [k \in StoreKeys |-> Absent]

CounterKey == ApiUsageKey(U1, S_endpoint)
Clients == 1..NumClients
TtlChoices == {FILE_LIST_TTL, ANALYTICS_TTL}
AdvanceSteps == {FILE_LIST_TTL, ANALYTICS_TTL}
Payloads == {"v1", "v2"}

\* Keys and patterns the cache client of SpecPattern works with.
PatternKeys ==
    {AnalyticsKey(U1, BlobA1), AnalyticsKey(U1, BlobB1), AnalyticsKey(U2, BlobA2)}
Patterns ==
    {GenerateKey(S_analytics, <<U1, S_star>>),
     GenerateKey(S_forecast, <<U1, BlobA1, S_star>>),
     GenerateKey(S_analytics, <<S_star>>)}

(***************************************************************************)
(* RedisCache: values, serialization and exception handling                *)
(***************************************************************************)
MAX_RETRIES == 3
RETRY_DELAY == 2

\* A faulty variant: it sleeps the same delay before every retry.
RetryDelayFlat(n) == RETRY_DELAY

\* time.sleep(RETRY_DELAY * attempt)
RetryDelay(n) == RETRY_DELAY * n

\* Python values as (type, text): the text is the JSON literal of a JSON
\* value, the isoformat of a date, the digits of a Decimal.
Py(type, text) == [type |-> type, text |-> text]
PyNone == Py("NoneType", <<>>)
PyTrue == Py("bool", <<"t", "r", "u", "e">>)
PyFalse == Py("bool", <<"f", "a", "l", "s", "e">>)
PyZero == Py("int", <<"0">>)
PyEmptyList == Py("list", <<"[", "]">>)
PyDate == Py("date", <<"2", "0", "2", "4">>)
PyDecimal == Py("Decimal", <<"0", ".", "1">>)
PyObject == Py("object", <<>>)
PyBool(b) == IF b THEN PyTrue ELSE PyFalse

\* The values a caller passes to set: falsy ones, the types the encoder
\* converts, and one the encoder cannot serialize.
SetValues == {PyZero, PyFalse, PyEmptyList, PyDate, PyDecimal, PyObject}

Quote == "\""
Digits == {"0", "1", "2", "3", "4", "5", "6", "7", "8", "9"}
AllDigits(s) == Len(s) > 0 /\ \A i \in 1..Len(s) : s[i] \in Digits

\* json.dumps(value, cls=CustomJSONEncoder): dates become their isoformat
\* string, Decimals a float; anything else unknown raises TypeError.
Serialize(v) ==
    CASE v.type \in {"int", "bool", "list", "float"} -> [ok |-> TRUE, text |-> v.text]
      [] v.type \in {"str", "date"} -> [ok |-> TRUE, text |-> <<Quote>> \o v.text \o <<Quote>>]
      [] v.type = "Decimal" -> [ok |-> TRUE, text |-> v.text]
      [] OTHER -> [ok |-> FALSE, text |-> <<>>]

\* A faulty variant: it takes any text that is not JSON for a string.
DeserializeLenient(s) == [ok |-> TRUE, value |-> Py("str", s)]

\* json.loads(text): the value with the type JSON gives it, or JSONDecodeError.
Deserialize(s) ==
    CASE s = PyTrue.text \/ s = PyFalse.text -> [ok |-> TRUE, value |-> Py("bool", s)]
      [] s = PyEmptyList.text -> [ok |-> TRUE, value |-> Py("list", s)]
      [] AllDigits(s) -> [ok |-> TRUE, value |-> Py("int", s)]
      [] Len(s) >= 2 /\ s[1] = Quote /\ s[Len(s)] = Quote ->
            [ok |-> TRUE, value |-> Py("str", SubSeq(s, 2, Len(s) - 1))]
      [] \E i \in 2..(Len(s) - 1) :
            s[i] = "." /\ AllDigits(SubSeq(s, 1, i - 1)) /\ AllDigits(SubSeq(s, i + 1, Len(s))) ->
            [ok |-> TRUE, value |-> Py("float", s)]
      [] OTHER -> [ok |-> FALSE, value |-> PyNone]

\* Stored texts that were not written by set: a truncated document and an
\* empty string.
Truncated == <<"{">>
EmptyText == <<>>
CorruptTexts == {Truncated, EmptyText}

\* What the backend does with a command: it replies, or the call raises.
BackendOutcomes == {"reply", "ConnectionError", "ResponseError"}

\* A faulty variant: it lets exceptions other than connection errors out.
GetExceptNarrow(exc) ==
    CASE exc \in {"ConnectionError", "TimeoutError"} -> "none"
      [] exc = "JSONDecodeError" -> "delete"
      [] OTHER -> "raise"

\* The except clauses of get: None is returned from each, the decode error
\* deleting the key first.
GetExcept(exc) ==
    CASE exc \in {"ConnectionError", "TimeoutError"} -> "none"
      [] exc = "JSONDecodeError" -> "delete"
      [] OTHER -> "none"

\* A faulty variant: it lets a serialization error out.
SetExceptNarrow(exc) ==
    CASE exc \in {"ConnectionError", "TimeoutError"} -> "false"
      [] exc \in {"TypeError", "ValueError"} -> "raise"
      [] OTHER -> "false"

\* The except clauses of set: False is returned from each.
SetExcept(exc) ==
    CASE exc \in {"ConnectionError", "TimeoutError"} -> "false"
      [] exc \in {"TypeError", "ValueError"} -> "false"
      [] OTHER -> "false"

\* The keys the client of SpecClient works with.
ClientKey == AnalyticsKey(U1, BlobA1)
ClientKeys == {ClientKey, FileListKey(U1)}

\* A call record: the method, its arguments, what it returned, whether it
\* raised, whether a command was sent to the backend, the time, the call
\* number, and the exception caught on the way.
Call(op, key, value, ttl, result, raised, contacted, t, n) ==
    [op |-> op, key |-> key, value |-> value, ttl |-> ttl, result |-> result,
     raised |-> raised, contacted |-> contacted, at |-> t, n |-> n, exc |-> "none",
     prior |-> Absent, last |-> [op |-> "none", key |-> <<>>, exc |-> "none"],
     cleanup |-> "none"]

\* What a later call remembers of the call before it.
Summary(a) == [op |-> a.op, key |-> a.key, exc |-> a.exc]
NoCall == Call("none", <<>>, PyNone, 0, PyNone, FALSE, FALSE, 0, 0)

NoSet == [value |-> PyNone, at |-> 0, ttl |-> 0]

\* The client as its constructor leaves it.
ReadyClient ==
    /\ conn_pc = "ready"
    /\ attempt = 0
    /\ pings = 0
    /\ failures = 0
    /\ sleeps = <<>>
    /\ api = NoCall
    /\ last_set = [k \in ClientKeys |-> NoSet]

\* No call in progress.
IdleCalls ==
    /\ now = 0
    /\ advances = 0
    /\ i_pc = [c \in Clients |-> "idle"]
    /\ i_ttl = [c \in Clients |-> 0]
    /\ i_result = [c \in Clients |-> NoCount]
    /\ incr_calls = 0
    /\ incr_returns = {}
    /\ incr_last = [at |-> 0, ttl |-> 0]
    /\ cache_ops = 0
    /\ dp_pc = "idle"
    /\ dp_pattern = <<>>
    /\ dp_batch = 0
    /\ dp_unvisited = {}
    /\ dp_count = 0
    /\ dp_result = 0
    /\ dp_failed = FALSE
    /\ dp_batches = 0
    /\ dp_before = EmptyStore
    /\ dp_start = 0
    /\ dp_runs = 0

\* No entry stored, no call in progress.
IdleCache == store = EmptyStore /\ IdleCalls

\* A cache that holds entries when the run begins: each of the keys is
\* stored or not.
FilledStores(keys) ==
    {[k \in StoreKeys |-> IF k \in present THEN [val |-> "v1", exp |-> Never] ELSE Absent] :
        present \in SUBSET keys}

\* A constructed client, connected or disabled.
InitCache ==
    /\ cache_enabled \in BOOLEAN
    /\ ReadyClient
    /\ IdleCache

\* The client before its constructor runs; cache_enabled is REDIS_ENABLED.
InitStartup ==
    /\ cache_enabled \in BOOLEAN
    /\ conn_pc = "new"
    /\ attempt = 0
    /\ pings = 0
    /\ failures = 0
    /\ sleeps = <<>>
    /\ api = NoCall
    /\ last_set = [k \in ClientKeys |-> NoSet]
    /\ IdleCache

\* A connected, empty cache that is never used.
ParkedCache == InitCache /\ cache_enabled = TRUE

\* Time passes.
Advance(dt) ==
    /\ advances < MaxAdvance
    /\ advances' = advances + 1
    /\ now' = now + dt
    /\ UNCHANGED <<cache_enabled, store, i_pc, i_ttl, i_result, incr_calls,
                   incr_returns, incr_last, cache_ops, dpVars>>
    /\ UNCHANGED notCacheVars

\* increment(key, 1, ttl) is entered by a client.
IncrementCall(c, ttl) ==
    /\ conn_pc = "ready"
    /\ i_pc[c] = "idle"
    /\ cache_ops < MaxCacheOps
    /\ cache_ops' = cache_ops + 1
    /\ i_pc' = [i_pc EXCEPT ![c] = "called"]
    /\ i_ttl' = [i_ttl EXCEPT ![c] = ttl]
    /\ i_result' = [i_result EXCEPT ![c] = NoCount]
    /\ UNCHANGED <<cache_enabled, store, now, advances, incr_calls, incr_returns,
                   incr_last, dpVars>>
    /\ UNCHANGED notCacheVars

\* not self.enabled: None is returned without a command being sent.
IncrementDisabled(c) ==
    /\ i_pc[c] = "called"
    /\ ~cache_enabled
    /\ i_pc' = [i_pc EXCEPT ![c] = "idle"]
    /\ UNCHANGED <<cache_enabled, store, now, advances, i_ttl, i_result, incr_calls,
                   incr_returns, incr_last, cache_ops, dpVars>>
    /\ UNCHANGED notCacheVars

\* The pipeline is executed by the server as one transaction; results[0] is returned.
IncrementExecute(c) ==
    /\ i_pc[c] = "called"
    /\ cache_enabled
    /\ store' = RedisIncrExpire(store, CounterKey, 1, i_ttl[c], now)
    /\ i_result' = [i_result EXCEPT ![c] = store'[CounterKey].val]
    /\ IF Live(store, CounterKey, now)
       THEN /\ incr_calls' = incr_calls + 1
            /\ incr_returns' = incr_returns \cup {store'[CounterKey].val}
       ELSE /\ incr_calls' = 1
            /\ incr_returns' = {store'[CounterKey].val}
    /\ incr_last' = [at |-> now, ttl |-> i_ttl[c]]
    /\ i_pc' = [i_pc EXCEPT ![c] = "idle"]
    /\ UNCHANGED <<cache_enabled, now, advances, i_ttl, cache_ops, dpVars>>
    /\ UNCHANGED notCacheVars

\* pipe.execute() raises: the error is logged and None is returned.
IncrementFails(c) ==
    /\ i_pc[c] = "called"
    /\ cache_enabled
    /\ i_pc' = [i_pc EXCEPT ![c] = "idle"]
    /\ UNCHANGED <<cache_enabled, store, now, advances, i_ttl, i_result, incr_calls,
                   incr_returns, incr_last, cache_ops, dpVars>>
    /\ UNCHANGED notCacheVars

\* set(key, value, ttl) on a connected store, the command succeeding.
CacheSet(key, value, ttl) ==
    /\ dp_pc = "idle"
    /\ cache_enabled
    /\ cache_ops < MaxCacheOps
    /\ cache_ops' = cache_ops + 1
    /\ store' = RedisSetex(store, key, ttl, value, now)
    /\ UNCHANGED <<cache_enabled, now, advances, i_pc, i_ttl, i_result, incr_calls,
                   incr_returns, incr_last, dpVars>>
    /\ UNCHANGED notCacheVars

\* delete(key) on a connected store, the command succeeding.
CacheDelete(key) ==
    /\ dp_pc = "idle"
    /\ cache_enabled
    /\ cache_ops < MaxCacheOps
    /\ cache_ops' = cache_ops + 1
    /\ store' = RedisDel(store, {key})
    /\ UNCHANGED <<cache_enabled, now, advances, i_pc, i_ttl, i_result, incr_calls,
                   incr_returns, incr_last, dpVars>>
    /\ UNCHANGED notCacheVars

\* delete_pattern(pattern, batch_size) is entered: count = 0, cursor = 0.
\* Disabled, it returns 0 at once.
DeletePatternBegin(pattern, batch_size) ==
    /\ conn_pc = "ready"
    /\ dp_pc = "idle"
    /\ dp_runs < MaxPatternRuns
    /\ dp_runs' = dp_runs + 1
    /\ dp_pattern' = pattern
    /\ dp_batch' = batch_size
    /\ dp_count' = 0
    /\ dp_result' = 0
    /\ dp_failed' = FALSE
    /\ dp_batches' = 0
    /\ dp_before' = store
    /\ dp_start' = now
    /\ IF cache_enabled
       THEN /\ dp_pc' = "scanning"
            /\ dp_unvisited' = {k \in StoreKeys : store[k] # Absent}
       ELSE /\ dp_pc' = "done"
            /\ dp_unvisited' = {}
    /\ UNCHANGED <<cache_enabled, store, now, advances, i_pc, i_ttl, i_result,
                   incr_calls, incr_returns, incr_last, cache_ops>>
    /\ UNCHANGED notCacheVars

\* One turn of the while loop: SCAN visits a chunk of the key space and
\* returns its matching keys, which one pipeline deletes; the loop ends
\* when the cursor is back at 0.
ScanBatch(chunk) ==
    /\ dp_pc = "scanning"
    /\ chunk \subseteq dp_unvisited
    /\ Cardinality(chunk) <= dp_batch
    /\ chunk # {} \/ dp_unvisited = {}
    /\ LET keys == ScanKeys(store, chunk, dp_pattern, now)
       IN  /\ store' = RedisDel(store, keys)
           /\ dp_count' = dp_count + Cardinality(keys)
    /\ dp_unvisited' = dp_unvisited \ chunk
    /\ dp_batches' = dp_batches + 1
    /\ IF dp_unvisited' = {}
       THEN /\ dp_pc' = "done"
            /\ dp_result' = dp_count'
       ELSE UNCHANGED <<dp_pc, dp_result>>
    /\ UNCHANGED <<cache_enabled, now, advances, i_pc, i_ttl, i_result, incr_calls,
                   incr_returns, incr_last, cache_ops, dp_pattern, dp_batch,
                   dp_failed, dp_before, dp_start, dp_runs>>
    /\ UNCHANGED notCacheVars

\* A faulty variant: the failure undoes the batches already deleted.
ScanFailsRollback ==
    /\ dp_pc = "scanning"
    /\ dp_pc' = "done"
    /\ dp_result' = 0
    /\ dp_failed' = TRUE
    /\ store' = dp_before
    /\ UNCHANGED <<cache_enabled, now, advances, i_pc, i_ttl, i_result,
                   incr_calls, incr_returns, incr_last, cache_ops, dp_pattern,
                   dp_batch, dp_unvisited, dp_count, dp_batches, dp_before, dp_start,
                   dp_runs>>
    /\ UNCHANGED notCacheVars

\* scan or pipe.execute() raises: the error is logged and 0 is returned.
ScanFails ==
    /\ dp_pc = "scanning"
    /\ dp_pc' = "done"
    /\ dp_result' = 0
    /\ dp_failed' = TRUE
    /\ UNCHANGED <<cache_enabled, store, now, advances, i_pc, i_ttl, i_result,
                   incr_calls, incr_returns, incr_last, cache_ops, dp_pattern,
                   dp_batch, dp_unvisited, dp_count, dp_batches, dp_before, dp_start,
                   dp_runs>>
    /\ UNCHANGED notCacheVars

\* delete_pattern has returned dp_result to its caller; its locals are gone.
DeletePatternReturn ==
    /\ dp_pc = "done"
    /\ dp_pc' = "idle"
    /\ dp_pattern' = <<>>
    /\ dp_batch' = 0
    /\ dp_unvisited' = {}
    /\ dp_count' = 0
    /\ dp_result' = 0
    /\ dp_failed' = FALSE
    /\ dp_batches' = 0
    /\ dp_before' = EmptyStore
    /\ dp_start' = 0
    /\ UNCHANGED <<cache_enabled, store, now, advances, i_pc, i_ttl, i_result,
                   incr_calls, incr_returns, incr_last, cache_ops, dp_runs>>
    /\ UNCHANGED notCacheVars

\* The cursor moves on by whatever chunk of the key space SCAN chooses.
ScanStep == \E chunk \in SUBSET dp_unvisited : ScanBatch(chunk)

(***************************************************************************)
(* RedisCache: construction, get, set, delete                              *)
(***************************************************************************)
\* RedisCache.__init__: with credentials the connection is initialized,
\* without them the client stays disabled.
Construct ==
    /\ conn_pc = "new"
    /\ IF cache_enabled
       THEN conn_pc' = "connect" /\ attempt' = 1
       ELSE conn_pc' = "ready" /\ attempt' = attempt
    /\ UNCHANGED <<pings, failures, sleeps, api, last_set>>
    /\ UNCHANGED <<cacheVars, notClientVars>>

\* One turn of the retry loop: the pool is built and ping() is sent.
ConnectAttempt(reply) ==
    /\ conn_pc = "connect"
    /\ pings' = pings + 1
    /\ failures' = IF reply = "reply" THEN failures ELSE failures + 1
    /\ CASE reply = "reply" ->
               conn_pc' = "ready" /\ cache_enabled' = cache_enabled
         [] reply \in {"ConnectionError", "TimeoutError"} /\ attempt < MAX_RETRIES ->
               conn_pc' = "sleep" /\ cache_enabled' = cache_enabled
         [] OTHER ->
               conn_pc' = "ready" /\ cache_enabled' = FALSE
    /\ UNCHANGED <<attempt, sleeps, api, last_set>>
    /\ UNCHANGED <<store, now, advances, i_pc, i_ttl, i_result, incr_calls,
                   incr_returns, incr_last, cache_ops, dpVars, notClientVars>>

\* time.sleep(RETRY_DELAY * attempt), then the next attempt.
SleepBeforeRetry ==
    /\ conn_pc = "sleep"
    /\ sleeps' = Append(sleeps, RetryDelay(attempt))
    /\ now' = now + RetryDelay(attempt)
    /\ attempt' = attempt + 1
    /\ conn_pc' = "connect"
    /\ UNCHANGED <<pings, failures, api, last_set>>
    /\ UNCHANGED <<cache_enabled, store, advances, i_pc, i_ttl, i_result, incr_calls,
                   incr_returns, incr_last, cache_ops, dpVars, notClientVars>>

\* What a client call leaves alone.
clientCallRest == <<conn_pc, attempt, pings, failures, sleeps, cache_enabled, now, advances,
                    i_pc, i_ttl, i_result, incr_calls, incr_returns, incr_last,
                    dpVars, notClientVars>>

\* get(key).  The inner delete of a corrupt entry may fail unnoticed.
ApiGet(key, reply, deleted) ==
    /\ conn_pc = "ready"
    /\ cache_ops < MaxClientCalls
    /\ cache_ops' = cache_ops + 1
    /\ cache_enabled \/ reply = "reply"
    /\ LET present == Live(store, key, now) /\ store[key].val # EmptyText
           parsed == IF present THEN Deserialize(store[key].val)
                     ELSE [ok |-> TRUE, value |-> PyNone]
           exc == IF ~cache_enabled THEN "none"
                  ELSE IF reply # "reply" THEN reply
                  ELSE IF ~parsed.ok THEN "JSONDecodeError" ELSE "none"
           handler == IF exc = "none" THEN "return" ELSE GetExcept(exc)
           result == IF cache_enabled /\ exc = "none" THEN parsed.value ELSE PyNone
       IN  /\ api' = [Call("get", key, PyNone, 0, result, handler = "raise",
                           cache_enabled, now, cache_ops')
                      EXCEPT !.exc = exc, !.prior = store[key], !.last = Summary(api),
                             !.cleanup = IF handler # "delete" THEN "none"
                                         ELSE IF deleted THEN "done" ELSE "failed"]
           /\ store' = IF handler = "delete" /\ deleted
                       THEN RedisDel(store, {key}) ELSE store
           /\ last_set' = IF handler = "delete" /\ deleted
                          THEN [last_set EXCEPT ![key] = NoSet] ELSE last_set
    /\ UNCHANGED clientCallRest

\* set(key, value, ttl)
ApiSet(key, value, ttl, reply) ==
    /\ conn_pc = "ready"
    /\ cache_ops < MaxClientCalls
    /\ cache_ops' = cache_ops + 1
    /\ cache_enabled \/ reply = "reply"
    /\ LET serialized == Serialize(value)
           exc == IF ~cache_enabled THEN "none"
                  ELSE IF ~serialized.ok THEN "TypeError"
                  ELSE IF reply # "reply" THEN reply ELSE "none"
           handler == IF exc = "none" THEN "return" ELSE SetExcept(exc)
           done == cache_enabled /\ exc = "none"
       IN  /\ api' = [Call("set", key, value, ttl, PyBool(done), handler = "raise",
                           cache_enabled /\ serialized.ok, now, cache_ops')
                      EXCEPT !.exc = exc, !.prior = store[key], !.last = Summary(api)]
           /\ store' = IF done THEN RedisSetex(store, key, ttl, serialized.text, now)
                       ELSE store
           /\ last_set' = IF done
                          THEN [last_set EXCEPT ![key] =
                                   [value |-> value, at |-> now, ttl |-> ttl]]
                          ELSE last_set
    /\ UNCHANGED clientCallRest

\* delete(key)
ApiDelete(key, reply) ==
    /\ conn_pc = "ready"
    /\ cache_ops < MaxClientCalls
    /\ cache_ops' = cache_ops + 1
    /\ cache_enabled \/ reply = "reply"
    /\ LET done == cache_enabled /\ reply = "reply"
       IN  /\ api' = [Call("delete", key, PyNone, 0, PyBool(done), FALSE,
                           cache_enabled, now, cache_ops')
                      EXCEPT !.exc = IF cache_enabled /\ ~done THEN reply ELSE "none",
                             !.prior = store[key], !.last = Summary(api)]
           /\ store' = IF done THEN RedisDel(store, {key}) ELSE store
           /\ last_set' = IF done THEN [last_set EXCEPT ![key] = NoSet] ELSE last_set
    /\ UNCHANGED clientCallRest

\* Before the client's first call, something other than set has left an
\* undecodable text under a key.
CorruptEntry(key, text) ==
    /\ conn_pc = "ready"
    /\ cache_enabled
    /\ cache_ops = 0
    /\ store[key] = Absent
    /\ cache_ops' = cache_ops
    /\ store' = RedisSetex(store, key, FILE_LIST_TTL, text, now)
    /\ last_set' = [last_set EXCEPT ![key] = NoSet]
    /\ api' = api
    /\ UNCHANGED clientCallRest

(***************************************************************************)
(* File requests: upload, list, preview, analytics, forecast, delete       *)
(***************************************************************************)
Workers == 1..NumWorkers

\* blob_name.startswith(f"{user_id}/")
StartsWith(s, prefix) ==
    Len(s) >= Len(prefix) /\ SubSeq(s, 1, Len(prefix)) = prefix

\* A faulty variant: every blob passes for the user's own.
OwnedByAnyone(blob_name, user_id) == TRUE

\* verify_ownership
OwnedBy(blob_name, user_id) == StartsWith(blob_name, user_id \o <<"/">>)
BlobsOf(user_id) == {b \in BlobNames : OwnedBy(b, user_id)}

\* What a request returns or caches: every result names its kind, the blob
\* it was computed from, the argument and, for a listing, the files.
Value(kind, blob_name, arg, files) ==
    [kind |-> kind, blob |-> blob_name, arg |-> arg, files |-> files]
NoValue == Value("none", <<>>, 0, {})

\* Python truthiness of a cached value: an empty listing is falsy.
Truthy(v) == v.kind # "files" \/ v.files # {}

\* A faulty variant: it never finds a cached value.
CacheHitNever(st, key, t) == FALSE

\* cached = cache.get(key); if cached: return cached
CacheHit(st, key, t) == Live(st, key, t) /\ Truthy(st[key].val)

\* A faulty variant: it takes every command for answered.
AnswersAlways(enabled, ok) == TRUE

\* A cache command is answered by the backend: the client is enabled and the
\* command does not raise.  Otherwise get gives None and set gives False.
Answers(enabled, ok) == enabled /\ ok

WrappedOps == {"analytics", "forecast", "preview", "list"}

\* The users with the datasets they own.
OwnedPairs == {p \in Users \X BlobNames : OwnedBy(p[2], p[1])}

\* The requests the workers receive.  A dataset is named by its blob name,
\* which get_file_path returns once ownership is verified.  Users ask for
\* their own datasets; an analytics request may also name another user's.
RequestInputs ==
    {[op |-> "analytics", user_id |-> u, blob_name |-> b, arg |-> 0] :
        u \in Users, b \in BlobNames}
    \cup {[op |-> "forecast", user_id |-> p[1], blob_name |-> p[2], arg |-> n] :
        p \in OwnedPairs, n \in PeriodChoices}
    \cup {[op |-> "preview", user_id |-> p[1], blob_name |-> p[2], arg |-> n] :
        p \in OwnedPairs, n \in RowChoices}
    \cup {[op |-> "delete", user_id |-> p[1], blob_name |-> p[2], arg |-> 0] :
        p \in OwnedPairs}
    \cup {[op |-> "upload", user_id |-> p[1], blob_name |-> p[2], arg |-> 0] :
        p \in OwnedPairs}
    \cup {[op |-> "list", user_id |-> u, blob_name |-> <<>>, arg |-> 0] :
        u \in Users}

\* The key a wrapped computation composes.
KeyOf(q) ==
    CASE q.op = "analytics" -> AnalyticsKey(q.user_id, q.blob_name)
      [] q.op = "forecast" -> ForecastKey(q.user_id, q.blob_name, q.arg)
      [] q.op = "preview" -> PreviewKey(q.user_id, q.blob_name, q.arg)
      [] q.op = "list" -> FileListKey(q.user_id)

\* The ttl it stores its result with.
TtlOf(op) ==
    CASE op = "analytics" -> ANALYTICS_TTL
      [] op = "forecast" -> FORECAST_TTL
      [] op = "preview" -> PREVIEW_TTL
      [] op = "list" -> FILE_LIST_TTL

\* The result it computes from the storage container.
Compute(q, container) ==
    IF q.op = "list"
    THEN Value("files", <<>>, 0, {b \in container : OwnedBy(b, q.user_id)})
    ELSE Value(q.op, q.blob_name, q.arg, {})

IdleRequest ==
    [pc |-> "idle", op |-> "none", user_id |-> <<>>, blob_name |-> <<>>, arg |-> 0,
     status |-> "none", result |-> NoValue, hit |-> FALSE, seen |-> Absent,
     computed |-> 0, written |-> Absent, at |-> 0, ok |-> TRUE, down |-> TRUE]

\* The container holds one dataset of each user.
InitFiles ==
    /\ blobs = {BlobA1, BlobA2}
    /\ uploaded = {BlobA1, BlobA2}
    /\ req = [w \in Workers |-> IdleRequest]
    /\ file_requests = 0

ParkedFiles == InitFiles

\* The request ends with a response.
Finish(q, status, result) ==
    [q EXCEPT !.pc = "done", !.status = status, !.result = result]

\* The request as the endpoint takes it up.  Ownership of the named blob is
\* verified first.
Admit(input) ==
    LET q == [IdleRequest EXCEPT !.op = input.op, !.user_id = input.user_id,
                                 !.blob_name = input.blob_name, !.arg = input.arg]
    IN  IF input.op # "list" /\ ~OwnedBy(input.blob_name, input.user_id)
        THEN Finish(q, "403", NoValue)
        ELSE [q EXCEPT !.pc =
                CASE input.op \in {"analytics", "forecast"} -> "load"
                  [] input.op \in {"preview", "list"} -> "check"
                  [] OTHER -> "storage"]

\* A worker picks up a request; an upload generates a blob name never used
\* before.
BeginRequest(w, input) ==
    /\ req[w].pc \in {"idle", "done"}
    /\ file_requests < MaxRequests
    /\ file_requests' = file_requests + 1
    /\ input.op = "upload" => input.blob_name \notin uploaded
    /\ req' = [req EXCEPT ![w] = Admit(input)]
    /\ UNCHANGED <<blobs, uploaded, store, now, cacheRestVars>>
    /\ UNCHANGED notFileVars

\* A faulty variant: the cache is asked before the blob is downloaded.
LoadDataframeAfterCache(w) ==
    /\ req[w].pc = "load"
    /\ req' = [req EXCEPT ![w].pc = IF req[w].op = "preview" THEN "compute" ELSE "check"]
    /\ UNCHANGED <<blobs, uploaded, file_requests, store, now, cacheRestVars>>
    /\ UNCHANGED notFileVars

\* load_dataframe: the blob is downloaded, or the request ends with 404.
LoadDataframe(w) ==
    /\ req[w].pc = "load"
    /\ req' = [req EXCEPT ![w] =
           IF req[w].blob_name \in blobs
           THEN [@ EXCEPT !.pc = IF req[w].op = "preview" THEN "compute" ELSE "check"]
           ELSE Finish(@, "404", NoValue)]
    /\ UNCHANGED <<blobs, uploaded, file_requests, store, now, cacheRestVars>>
    /\ UNCHANGED notFileVars

\* The wrapper looks its key up; a disabled cache or a failing GET gives None.
CheckCache(w, ok) ==
    /\ req[w].pc = "check"
    /\ cache_enabled \/ ok
    /\ LET q == req[w]
           key == KeyOf(q)
           hit == Answers(cache_enabled, ok) /\ CacheHit(store, key, now)
           seen == IF Live(store, key, now) THEN store[key] ELSE Absent
           q1 == [q EXCEPT !.seen = seen, !.hit = hit, !.ok = @ /\ ok,
                           !.down = @ /\ ~Answers(cache_enabled, ok)]
       IN  req' = [req EXCEPT ![w] =
               IF hit THEN Finish(q1, "200", store[key].val)
               ELSE [q1 EXCEPT !.pc = IF q.op = "preview" THEN "load" ELSE "compute"]]
    /\ UNCHANGED <<blobs, uploaded, file_requests, store, now, cacheRestVars>>
    /\ UNCHANGED notFileVars

\* The computation runs and its result is offered to the cache; a listing
\* is offered only when it is not empty.
ComputeAndStore(w, ok) ==
    /\ req[w].pc = "compute"
    /\ cache_enabled \/ ok
    /\ LET q == req[w]
           key == KeyOf(q)
           result == Compute(q, blobs)
           offered == q.op # "list" \/ result.files # {}
           stored == offered /\ Answers(cache_enabled, ok)
       IN  /\ store' = IF stored
                       THEN RedisSetex(store, key, TtlOf(q.op), result, now)
                       ELSE store
           /\ req' = [req EXCEPT ![w] =
                  Finish([q EXCEPT !.computed = @ + 1, !.at = now,
                                   !.ok = @ /\ (ok \/ ~offered),
                                   !.down = @ /\ (~Answers(cache_enabled, ok) \/ ~offered),
                                   !.written = IF stored THEN store'[key] ELSE Absent],
                         "200", result)]
    /\ UNCHANGED <<blobs, uploaded, file_requests, now, cacheRestVars>>
    /\ UNCHANGED notFileVars

\* delete_user_file: the blob is deleted, or the request ends with 404.
DeleteBlob(w) ==
    /\ req[w].pc = "storage"
    /\ req[w].op = "delete"
    /\ IF req[w].blob_name \in blobs
       THEN /\ blobs' = blobs \ {req[w].blob_name}
            /\ req' = [req EXCEPT ![w].pc = "invalidate"]
       ELSE /\ blobs' = blobs
            /\ req' = [req EXCEPT ![w] = Finish(@, "404", NoValue)]
    /\ UNCHANGED <<uploaded, file_requests, store, now, cacheRestVars>>
    /\ UNCHANGED notFileVars

\* Its three invalidations, each of which can fail without being noticed:
\* the user's file list, the dataset's analysis, the dataset's forecasts.
InvalidateAfterDelete(w, okFiles, okAnalytics, okForecast) ==
    /\ req[w].pc = "invalidate"
    /\ req[w].op = "delete"
    /\ cache_enabled \/ (okFiles /\ okAnalytics /\ okForecast)
    /\ LET q == req[w]
           pattern == GenerateKey(S_forecast, <<q.user_id, q.blob_name, S_star>>)
           gone == (IF okFiles THEN {FileListKey(q.user_id)} ELSE {})
                   \cup (IF okAnalytics THEN {AnalyticsKey(q.user_id, q.blob_name)} ELSE {})
                   \cup (IF okForecast THEN ScanKeys(store, StoreKeys, pattern, now) ELSE {})
       IN  /\ store' = IF cache_enabled THEN RedisDel(store, gone) ELSE store
           /\ req' = [req EXCEPT ![w] =
                  Finish([q EXCEPT !.ok = okFiles /\ okAnalytics /\ okForecast],
                         "200", NoValue)]
    /\ UNCHANGED <<blobs, uploaded, file_requests, now, cacheRestVars>>
    /\ UNCHANGED notFileVars

\* save_uploaded_file: the blob is written under its new name.
UploadBlob(w) ==
    /\ req[w].pc = "storage"
    /\ req[w].op = "upload"
    /\ blobs' = blobs \cup {req[w].blob_name}
    /\ uploaded' = uploaded \cup {req[w].blob_name}
    /\ req' = [req EXCEPT ![w].pc = "invalidate"]
    /\ UNCHANGED <<file_requests, store, now, cacheRestVars>>
    /\ UNCHANGED notFileVars

\* and the user's file list is invalidated.
InvalidateAfterUpload(w, ok) ==
    /\ req[w].pc = "invalidate"
    /\ req[w].op = "upload"
    /\ cache_enabled \/ ok
    /\ store' = IF cache_enabled /\ ok
                THEN RedisDel(store, {FileListKey(req[w].user_id)})
                ELSE store
    /\ req' = [req EXCEPT ![w] = Finish([@ EXCEPT !.ok = ok], "200", NoValue)]
    /\ UNCHANGED <<blobs, uploaded, file_requests, now, cacheRestVars>>
    /\ UNCHANGED notFileVars

\* The requests of the failing computations: user u1 asks for the analysis
\* and for forecasts of its dataset, the periods inside and outside 1..365.
FailingPeriods == {0, 7, 366}
FailingInputs ==
    {[op |-> "analytics", user_id |-> U1, blob_name |-> BlobA1, arg |-> 0]}
    \cup {[op |-> "forecast", user_id |-> U1, blob_name |-> BlobA1, arg |-> n] :
        n \in FailingPeriods}

\* forecast_sales_demand of execute_function: a forecast with periods
\* outside 1..365 is answered with an error before anything else is done.
\* Of the free workers the one with the lowest number takes the request.
BeginWrapped(w, input) ==
    /\ req[w].pc \in {"idle", "done"}
    /\ \A v \in Workers : v < w => req[v].pc \notin {"idle", "done"}
    /\ file_requests < MaxRequests
    /\ file_requests' = file_requests + 1
    /\ req' = [req EXCEPT ![w] =
           IF input.op = "forecast" /\ (input.arg < 1 \/ input.arg > 365)
           THEN Finish([IdleRequest EXCEPT !.op = input.op, !.user_id = input.user_id,
                                           !.blob_name = input.blob_name,
                                           !.arg = input.arg],
                       "error", NoValue)
           ELSE Admit(input)]
    /\ UNCHANGED <<blobs, uploaded, store, now, cacheRestVars>>
    /\ UNCHANGED notFileVars

\* A faulty variant: what was computed before the failure is cached.
ComputeFailsStoring(w) ==
    /\ req[w].pc = "compute"
    /\ req[w].op \in {"analytics", "forecast"}
    /\ cache_enabled
    /\ store' = RedisSetex(store, KeyOf(req[w]), TtlOf(req[w].op), NoValue, now)
    /\ req' = [req EXCEPT ![w] = Finish([@ EXCEPT !.computed = @ + 1, !.at = now],
                                        "500", NoValue)]
    /\ UNCHANGED <<blobs, uploaded, file_requests, now, cacheRestVars>>
    /\ UNCHANGED notFileVars

\* analyze_sales_data or forecast_demand raises on the dataframe it was
\* given: the exception leaves the function before its cache_* call.
ComputeFails(w) ==
    /\ req[w].pc = "compute"
    /\ req[w].op \in {"analytics", "forecast"}
    /\ req' = [req EXCEPT ![w] = Finish([@ EXCEPT !.computed = @ + 1, !.at = now],
                                        "500", NoValue)]
    /\ UNCHANGED <<blobs, uploaded, file_requests, store, now, cacheRestVars>>
    /\ UNCHANGED notFileVars

FailingStep(W) ==
    \/ \E w \in W, input \in FailingInputs : BeginWrapped(w, input)
    \/ \E w \in W : LoadDataframe(w)
    \/ \E w \in W, ok \in BOOLEAN : CheckCache(w, ok)
    \/ \E w \in W, ok \in BOOLEAN : ComputeAndStore(w, ok)
    \/ \E w \in W : ComputeFails(w)

FileStep(W) ==
    \/ \E w \in W, input \in RequestInputs : BeginRequest(w, input)
    \/ \E w \in W : LoadDataframe(w)
    \/ \E w \in W, ok \in BOOLEAN : CheckCache(w, ok)
    \/ \E w \in W, ok \in BOOLEAN : ComputeAndStore(w, ok)
    \/ \E w \in W : DeleteBlob(w)
    \/ \E w \in W, okFiles \in BOOLEAN, okAnalytics \in BOOLEAN, okForecast \in BOOLEAN :
          InvalidateAfterDelete(w, okFiles, okAnalytics, okForecast)
    \/ \E w \in W : UploadBlob(w)
    \/ \E w \in W, ok \in BOOLEAN : InvalidateAfterUpload(w, ok)
    \/ Advance(FILE_LIST_TTL)

(***************************************************************************)
(* The file endpoints with the order of their requests: every worker       *)
(* thread serves one request, and get_user_files lists the container and   *)
(* caches the listing in two steps.                                        *)
(***************************************************************************)
OrderWorkers == 1..MaxOrdered

InitOrder == began = [w \in OrderWorkers |-> {}]

ParkedOrder == InitOrder

\* The container holds one dataset of user u1.
InitOrderedFiles ==
    /\ blobs = {BlobA1}
    /\ uploaded = {BlobA1}
    /\ req = [w \in OrderWorkers |-> IdleRequest]
    /\ file_requests = 0

\* User u1 analyses and deletes the dataset, uploads another and lists.
OrderedInputs ==
    {[op |-> "analytics", user_id |-> U1, blob_name |-> BlobA1, arg |-> 0],
     [op |-> "delete", user_id |-> U1, blob_name |-> BlobA1, arg |-> 0],
     [op |-> "upload", user_id |-> U1, blob_name |-> BlobB1, arg |-> 0],
     [op |-> "list", user_id |-> U1, blob_name |-> <<>>, arg |-> 0]}

\* A worker picks up its request; it notes which requests have returned.
\* The threads are alike, so they are taken in the order of their numbers.
BeginOrdered(w, input) ==
    /\ req[w].pc = "idle"
    /\ \A v \in OrderWorkers : v < w => req[v].pc # "idle"
    /\ input.op = "upload" =>
          /\ input.blob_name \notin uploaded
          /\ \A v \in OrderWorkers : req[v].blob_name # input.blob_name
    /\ file_requests' = file_requests + 1
    /\ req' = [req EXCEPT ![w] = Admit(input)]
    /\ began' = [began EXCEPT ![w] = {v \in OrderWorkers : req[v].pc = "done"}]
    /\ UNCHANGED <<blobs, uploaded, store, now, cacheRestVars>>
    /\ UNCHANGED <<loopVars, quotaVars, clientVars, registryVars, keyVars, rateVars,
                   researchVars, clearVars>>

\* get_user_files after a cache miss: list_blobs under the user's prefix.
ListBlobs(w) ==
    /\ req[w].pc = "compute"
    /\ req[w].op = "list"
    /\ req' = [req EXCEPT ![w] =
           [@ EXCEPT !.pc = "store", !.result = Compute(req[w], blobs),
                     !.computed = @ + 1, !.at = now]]
    /\ UNCHANGED <<blobs, uploaded, file_requests, store, now, cacheRestVars>>
    /\ UNCHANGED notFileVars

\* and then: if use_cache and files: cache_file_list(user_id, files)
CacheFileList(w, ok) ==
    /\ req[w].pc = "store"
    /\ cache_enabled \/ ok
    /\ LET q == req[w]
           key == KeyOf(q)
           offered == q.result.files # {}
           stored == offered /\ Answers(cache_enabled, ok)
       IN  /\ store' = IF stored
                       THEN RedisSetex(store, key, TtlOf(q.op), q.result, now)
                       ELSE store
           /\ req' = [req EXCEPT ![w] =
                  Finish([q EXCEPT !.ok = @ /\ (ok \/ ~offered),
                                   !.down = @ /\ (~Answers(cache_enabled, ok) \/ ~offered),
                                   !.written = IF stored THEN store'[key] ELSE Absent],
                         "200", q.result)]
    /\ UNCHANGED <<blobs, uploaded, file_requests, now, cacheRestVars>>
    /\ UNCHANGED notFileVars

\* analyze_sales_data computes from the dataframe it was given.
ComputeAnalytics(w, ok) ==
    /\ req[w].op = "analytics"
    /\ ComputeAndStore(w, ok)

\* The cache backend answers every command here: what is followed is the
\* order of the steps of the requests.
OrderedStep ==
    \/ \E w \in OrderWorkers, input \in OrderedInputs : BeginOrdered(w, input)
    \/ \E w \in OrderWorkers : LoadDataframe(w)
    \/ \E w \in OrderWorkers : CheckCache(w, TRUE)
    \/ \E w \in OrderWorkers : ComputeAnalytics(w, TRUE)
    \/ \E w \in OrderWorkers : ListBlobs(w)
    \/ \E w \in OrderWorkers : CacheFileList(w, TRUE)
    \/ \E w \in OrderWorkers : DeleteBlob(w)
    \/ \E w \in OrderWorkers : InvalidateAfterDelete(w, TRUE, TRUE, TRUE)
    \/ \E w \in OrderWorkers : UploadBlob(w)
    \/ \E w \in OrderWorkers : InvalidateAfterUpload(w, TRUE)

(***************************************************************************)
(* do_market_research_cached: research passes of one caller at a time      *)
(* over the SearchManager and the cache files (utils/research.py)          *)
(***************************************************************************)
CACHE_EXPIRY == 86400

Topics == {"t1"}
Levels == {1, 2, 3}

\* The cache file name is the md5 of idea, customer, geography and level.
ResearchKeys == [topic : Topics, level : Levels]

\* searches_to_perform of gather_market_data
Planned(level) == 3 + (IF level >= 2 THEN 4 ELSE 0) + (IF level >= 3 THEN 5 ELSE 0)

\* A faulty variant: it takes every cache file for expired.
CacheFreshNever(entry, t) == FALSE

\* The cache file exists and is younger than cache_expiry_hours.
CacheFresh(entry, t) == entry # Absent /\ t - entry.at < CACHE_EXPIRY

\* What do_market_research returns: the analysis, or the mapping with the
\* "error" field when no search succeeded.
Research(key, successful) ==
    [kind |-> IF successful = 0 THEN "no_results" ELSE "research", key |-> key]
NoResearch == [kind |-> "none", key |-> [topic |-> "none", level |-> 0]]

IdlePass ==
    [pc |-> "idle", key |-> NoResearch.key, found |-> Absent, began |-> 0,
     before |-> [count |-> 0, date |-> 0], net_up |-> TRUE, planned |-> 0,
     attempted |-> 0, successful |-> 0, stopped |-> FALSE, source |-> "none",
     raised |-> FALSE, result |-> NoResearch]

InitResearch ==
    /\ r_cache = [k \in ResearchKeys |-> Absent]
    /\ r_pass = IdlePass
    /\ r_started = 0

ParkedResearch == InitResearch

(***************************************************************************)
(* clear_user_cache: the cache entries of one user are dropped             *)
(***************************************************************************)
\* The dict it returns, with the store it found.
Cleared(file_list, analytics, forecasts, previews) ==
    [file_list |-> file_list, analytics |-> analytics, forecasts |-> forecasts,
     previews |-> previews]
NoClear ==
    [pc |-> "idle", user_id |-> <<>>, before |-> EmptyStore,
     cleared |-> Cleared(0, 0, 0, 0), total |-> 0, ok |-> TRUE]

InitClear == cu_call = NoClear

ParkedClear == InitClear

\* Entries the cache holds when a user clears it: of the user and of
\* another one, and a rate-limit counter of each.
ClearKeys ==
    {FileListKey(U1), AnalyticsKey(U1, BlobA1), ForecastKey(U1, BlobA1, 7),
     PreviewKey(U1, BlobA1, 10), FileListKey(U2), AnalyticsKey(U2, BlobA2),
     ApiUsageKey(U1, S_endpoint), ApiUsageKey(U2, S_endpoint)}

\* f"analytics:{user_id}:*", f"forecast:{user_id}:*", f"preview:{user_id}:*"
UserPattern(prefix, user_id) == prefix \o <<":">> \o user_id \o <<":", "*">>

\* delete_pattern as one call: the keys it removes and the number it
\* returns; disabled or failing it removes nothing and returns 0.
PatternGone(st, pattern, ok, t) ==
    IF Answers(cache_enabled, ok) THEN ScanKeys(st, StoreKeys, pattern, t) ELSE {}

\* clear_user_cache(user_id): delete of the file list, which reports
\* whether the command went through, then the three delete_pattern calls.
ClearUserCache(user_id, okFiles, okAnalytics, okForecast, okPreview) ==
    /\ cu_call.pc = "idle"
    /\ cache_enabled \/ (okFiles /\ okAnalytics /\ okForecast /\ okPreview)
    /\ LET st1 == IF Answers(cache_enabled, okFiles)
                  THEN RedisDel(store, {FileListKey(user_id)}) ELSE store
           goneA == PatternGone(st1, UserPattern(S_analytics, user_id), okAnalytics, now)
           st2 == RedisDel(st1, goneA)
           goneF == PatternGone(st2, UserPattern(S_forecast, user_id), okForecast, now)
           st3 == RedisDel(st2, goneF)
           goneP == PatternGone(st3, UserPattern(S_preview, user_id), okPreview, now)
           cleared == Cleared(IF Answers(cache_enabled, okFiles) THEN 1 ELSE 0,
                              Cardinality(goneA), Cardinality(goneF), Cardinality(goneP))
       IN  /\ store' = RedisDel(st3, goneP)
           /\ cu_call' = [pc |-> "done", user_id |-> user_id, before |-> store,
                          cleared |-> cleared,
                          total |-> cleared.file_list + cleared.analytics
                                    + cleared.forecasts + cleared.previews,
                          ok |-> okFiles /\ okAnalytics /\ okForecast /\ okPreview]
    /\ UNCHANGED <<now, cacheRestVars>>
    /\ UNCHANGED notClearVars

\* The endpoint has answered with the dict.
ClearReturn ==
    /\ cu_call.pc = "done"
    /\ cu_call' = NoClear
    /\ UNCHANGED cacheVars
    /\ UNCHANGED notClearVars

\* What the searches of a pass leave alone in the SearchManager: the threads
\* of the concurrent callers and what is noted about them.
passQuotaRest == <<today, usage_gen, q_pc, q_call, q_today, q_ref, q_tmp, q_result,
                   recorded, started, resets, first_date>>

\* do_market_research_cached is entered: a fresh cache file is returned,
\* otherwise the pass begins.  The search service can be reached during the
\* whole pass, or not at all.
ResearchBegin(key, net_up) ==
    /\ r_pass.pc \in {"idle", "done"}
    /\ r_started < MaxResearch
    /\ r_started' = r_started + 1
    /\ LET q == [IdlePass EXCEPT !.key = key, !.found = r_cache[key], !.began = now,
                                 !.before = usage_data, !.net_up = net_up]
       IN  r_pass' = IF CacheFresh(r_cache[key], now)
                     THEN [q EXCEPT !.pc = "done", !.source = "cache",
                                    !.result = r_cache[key].val]
                     ELSE [q EXCEPT !.pc = "gather", !.source = "pass",
                                    !.planned = Planned(key.level)]
    /\ UNCHANGED <<r_cache, quotaVars, cacheVars>>
    /\ UNCHANGED <<loopVars, fileVars, clientVars, registryVars, keyVars, rateVars,
                   orderVars, clearVars>>

\* One search of the pass: _reset_if_needed, the quota test, the request and
\* the count.  A refused search ends the loop of the pass.
PassSearch ==
    /\ r_pass.pc = "gather"
    /\ r_pass.attempted < r_pass.planned
    /\ ~r_pass.stopped
    /\ LET reset == NeedsReset(usage_data, today)
           data == IF reset THEN [count |-> 0, date |-> today] ELSE usage_data
           refused == ~CanSearch(data)
           counted == ~refused /\ r_pass.net_up
       IN  /\ usage_data' = IF counted THEN [data EXCEPT !.count = @ + 1] ELSE data
           /\ usage_file' = IF reset \/ counted THEN usage_data' ELSE usage_file
           /\ r_pass' = [r_pass EXCEPT !.attempted = @ + 1,
                                       !.successful = IF counted THEN @ + 1 ELSE @,
                                       !.stopped = refused]
    /\ UNCHANGED <<r_cache, r_started, passQuotaRest, cacheVars>>
    /\ UNCHANGED <<loopVars, fileVars, clientVars, registryVars, keyVars, rateVars,
                   orderVars, clearVars>>

\* The loop is over: get_usage_stats, then the mapping with the "error"
\* field or the analysis of call_llm, which may raise; whatever
\* do_market_research returns is written to the cache file.
PassEnd(llm_ok) ==
    /\ r_pass.pc = "gather"
    /\ r_pass.attempted = r_pass.planned \/ r_pass.stopped
    /\ LET reset == NeedsReset(usage_data, today)
           raises == r_pass.successful > 0 /\ ~llm_ok
           result == Research(r_pass.key, r_pass.successful)
       IN  /\ usage_data' = IF reset THEN [count |-> 0, date |-> today] ELSE usage_data
           /\ usage_file' = IF reset THEN usage_data' ELSE usage_file
           /\ r_cache' = IF raises THEN r_cache
                         ELSE [r_cache EXCEPT ![r_pass.key] = [val |-> result, at |-> now]]
           /\ r_pass' = [r_pass EXCEPT !.pc = "done", !.raised = raises,
                                       !.result = IF raises THEN NoResearch ELSE result]
    /\ UNCHANGED <<r_started, passQuotaRest, cacheVars>>
    /\ UNCHANGED <<loopVars, fileVars, clientVars, registryVars, keyVars, rateVars,
                   orderVars, clearVars>>

\* Time passes between two requests.
ResearchWait ==
    /\ r_pass.pc # "gather"
    /\ Advance(CACHE_EXPIRY)

\* Midnight passes between two requests.
ResearchMidnight ==
    /\ r_pass.pc # "gather"
    /\ Tick

ResearchStep ==
    \/ \E key \in ResearchKeys, net_up \in BOOLEAN : ResearchBegin(key, net_up)
    \/ PassSearch
    \/ \E llm_ok \in BOOLEAN : PassEnd(llm_ok)
    \/ ResearchMidnight
    \/ ResearchWait

(***************************************************************************)
(* execute_function: the function registry of the assistant (main.py)      *)
(***************************************************************************)
FunctionNames ==
    {"list_available_files", "analyze_sales_file", "query_sales_data",
     "forecast_sales_demand", "market_research", "no_such_function"}

FileFunctions == {"analyze_sales_file", "query_sales_data", "forecast_sales_demand"}

\* An argument of the call: missing, or a value of a JSON type.
NoArg == [kind |-> "missing", val |-> <<>>, n |-> 0]
StrArg(s) == [kind |-> "str", val |-> s, n |-> 0]
IntArg(n) == [kind |-> "int", val |-> <<>>, n |-> n]

Traversal == <<".", ".", "/", "u", "2", "/", "a">>
Rooted == <<"/", "a">>

\* The filename arguments explored: blob names, original filenames, names
\* that validate_filename rejects, a number, and none.
FilenameArgs ==
    {StrArg(b) : b \in BlobNames}
    \cup {StrArg(<<"a">>), StrArg(<<"z">>), StrArg(Traversal), StrArg(Rooted),
          IntArg(5), NoArg}

PeriodArgs == {NoArg, IntArg(7), IntArg(0), StrArg(<<"7">>)}

ExecArgs(user_id, filename, periods, question, research, level) ==
    [user_id |-> user_id, filename |-> filename, periods |-> periods,
     question |-> question, research |-> research, level |-> level]

\* What the call finds around it: the blobs in the container, whether the
\* file list and the analytics or forecast are cached, what fails, and the
\* state of the search service.
Faults == {"none", "storage", "parse", "compute"}
SearchStates ==
    {"unconfigured", "file_cached", "exhausted", "runs_out", "all_fail", "ok",
     "llm_fails"}
Containers == {{}, {BlobA2}, {BlobA1, BlobA2}, BlobNames}

ExecEnv(present, list_hit, hit, fault, search) ==
    [present |-> present, list_hit |-> list_hit, hit |-> hit, fault |-> fault,
     search |-> search]

\* The mapping the call returns ("absent": the mapping has no such field),
\* the blob whose data it carries and the services the call used.
ExecResult(status, message, kind, data_of, effects) ==
    [raised |-> FALSE, status |-> status, message |-> message, kind |-> kind,
     data_of |-> data_of, effects |-> effects]
NoBlob == <<>>
ErrorResult(message, effects) == ExecResult("error", message, "error", NoBlob, effects)
NoResult == ExecResult("absent", "absent", "none", NoBlob, {})

\* The value or the exception of a step inside the try block.
Ok(val, effects) == [ok |-> TRUE, message |-> "", val |-> val, effects |-> effects]
Raise(message, effects) == [ok |-> FALSE, message |-> message, val |-> <<>>, effects |-> effects]

HasDotDot(s) == \E i \in 1..(Len(s) - 1) : s[i] = "." /\ s[i + 1] = "."

\* validate_filename; a non-string argument makes the `in` test raise.
ValidateFilename(filename) ==
    IF filename.kind # "str"
    THEN Raise("argument of type 'int' is not iterable", {})
    ELSE IF HasDotDot(filename.val) \/ StartsWith(filename.val, <<"/">>)
    THEN Raise("400: Invalid filename", {})
    ELSE Ok(filename.val, {})

\* _extract_filename: the part after the last "/".
ExtractFilename(blob_name) ==
    LET slashes == {i \in 1..Len(blob_name) : blob_name[i] = "/"}
        last == IF slashes = {} THEN 0
                ELSE CHOOSE i \in slashes : \A j \in slashes : j <= i
    IN  SubSeq(blob_name, last + 1, Len(blob_name))

\* get_user_files: the cached list if there is one (it may name blobs that
\* are gone), else the blobs under the user's prefix.
GetUserFiles(user_id, env) ==
    IF env.list_hit THEN Ok(BlobsOf(user_id), {"cache"})
    ELSE IF env.fault = "storage"
    THEN Raise("500: Failed to list files", {"cache", "storage"})
    ELSE Ok({b \in env.present : OwnedBy(b, user_id)}, {"cache", "storage"})

\* get_file_path
GetFilePath(name, user_id, env) ==
    IF OwnedBy(name, user_id) THEN Ok(name, {})
    ELSE LET files == GetUserFiles(user_id, env)
             matching == IF files.ok
                         THEN {b \in files.val : ExtractFilename(b) = name}
                         ELSE {}
         IN  IF ~files.ok THEN files
             ELSE IF matching = {} THEN Raise("404: File not found", files.effects)
             ELSE Ok(CHOOSE b \in matching : TRUE, files.effects)

\* load_dataframe: ownership, download, parse.
LoadDataframeOf(blob_name, user_id, env) ==
    IF ~OwnedBy(blob_name, user_id) THEN Raise("403: Access denied", {})
    ELSE IF env.fault = "storage" THEN Raise("500: Failed to load file", {"storage"})
    ELSE IF blob_name \notin env.present THEN Raise("404: File not found", {"storage"})
    ELSE IF env.fault = "parse" THEN Raise("500: Failed to load file", {"storage"})
    ELSE Ok(blob_name, {"storage"})

\* analyze_sales_data and forecast_demand: the cached result, or the computed one.
Wrapped(blob_name, env) ==
    IF env.hit THEN Ok(blob_name, {"cache"})
    ELSE IF env.fault = "compute" THEN Raise("Could not detect date or sales column", {"cache"})
    ELSE Ok(blob_name, {"cache"})

\* The branches of the three file functions after their own argument checks.
FileBranch(kind, args, env) ==
    LET valid == ValidateFilename(args.filename)
        path == GetFilePath(valid.val, args.user_id, env)
        df == LoadDataframeOf(path.val, args.user_id, env)
        res == Wrapped(df.val, env)
    IN  IF ~valid.ok THEN ErrorResult(valid.message, {})
        ELSE IF ~path.ok THEN ErrorResult(path.message, path.effects)
        ELSE IF ~df.ok THEN ErrorResult(df.message, path.effects \cup df.effects)
        ELSE IF ~res.ok
        THEN ErrorResult(res.message, path.effects \cup df.effects \cup res.effects)
        ELSE ExecResult("absent", "absent", kind, res.val,
                        path.effects \cup df.effects \cup res.effects)

\* The market_research branch.  With no successful search do_market_research
\* returns a mapping with an "error" field, which the branch wraps like any
\* other result.
ResearchBranch(args, env) ==
    CASE env.search = "unconfigured" ->
            ErrorResult("Market research is unavailable. Google API credentials not configured.", {})
      [] env.search # "unconfigured" /\ ~args.research ->
            ErrorResult("Market research requires: idea, customer, and geography", {})
      [] env.search # "unconfigured" /\ args.research /\ args.level.kind = "str" ->
            ErrorResult("Research failed: '<' not supported between instances of 'int' and 'str'", {})
      [] OTHER ->
            CASE env.search = "file_cached" ->
                    ExecResult("success", "absent", "research", NoBlob, {"research_cache"})
              [] env.search \in {"exhausted", "all_fail"} ->
                    ExecResult("success", "absent", "empty_research", NoBlob,
                               {"research_cache", "search"})
              [] env.search = "llm_fails" ->
                    ErrorResult("Research failed: provider error", {"research_cache", "search", "llm"})
              [] OTHER ->
                    ExecResult("success", "absent", "research", NoBlob,
                               {"research_cache", "search", "llm"})

\* A faulty variant: an unknown name falls through to the file list.
UnknownFunctionLists(function_name, args, env) ==
    LET files == GetUserFiles(args.user_id, env)
    IN  ExecResult("success", "absent", "files", NoBlob, files.effects)

\* The else branch: the name is none of the registered ones.
UnknownFunction(function_name, args, env) ==
    ErrorResult("Unknown function: " \o function_name, {})

\* execute_function(function_name, arguments).  Every exception raised inside
\* is turned into an error mapping by the outer handler.
ExecuteFunction(function_name, args, env) ==
    CASE function_name = "list_available_files" ->
            LET files == GetUserFiles(args.user_id, env)
            IN  IF files.ok
                THEN ExecResult("success", "absent", "files", NoBlob, files.effects)
                ELSE ErrorResult(files.message, files.effects)
      [] function_name = "analyze_sales_file" ->
            IF args.filename.kind = "missing" THEN ErrorResult("'filename'", {})
            ELSE FileBranch("analytics", args, env)
      [] function_name = "query_sales_data" ->
            IF args.filename.kind = "missing" THEN ErrorResult("'filename'", {})
            ELSE IF ~args.question THEN ErrorResult("'question'", {})
            ELSE FileBranch("query", args, env)
      [] function_name = "forecast_sales_demand" ->
            IF args.filename.kind = "missing" THEN ErrorResult("'filename'", {})
            ELSE IF args.periods.kind = "str"
            THEN ErrorResult("'<' not supported between instances of 'str' and 'int'", {})
            ELSE LET periods == IF args.periods.kind = "missing" THEN 30
                                ELSE args.periods.n
                 IN  IF periods < 1 \/ periods > 365
                     THEN ErrorResult("Periods must be between 1 and 365", {})
                     ELSE FileBranch("forecast", args, env)
      [] function_name = "market_research" -> ResearchBranch(args, env)
      [] OTHER -> UnknownFunction(function_name, args, env)

ParkedKeys == InitKeys

(***************************************************************************)
(* check_rate_limit (main.py) over track_api_usage (redis_cache.py)        *)
(***************************************************************************)
HOUR == 3600

\* The limit arguments explored (the endpoints pass 10 to 100).
RateLimits == {1, 2}

\* The seconds between one request of the user and the next.
RateGaps == {1200, 2400, HOUR}

RateThreads == 1..NumClients

\* A thread outside check_rate_limit.
IdleCheck == [pc |-> "idle", usage |-> NoCount, at |-> 0]

IdleLimiter ==
    /\ rl_req = [t \in RateThreads |-> IdleCheck]
    /\ rl_log = <<>>

ParkedRate == rl_times = <<>> /\ rl_verdict = "none" /\ rl_limit = 0 /\ IdleLimiter

InitRate ==
    /\ rl_times = <<>>
    /\ rl_verdict = "none"
    /\ rl_limit \in RateLimits
    /\ IdleLimiter

\* A request of user u1 reaches the endpoint gap seconds after the previous
\* one.  track_api_usage increments the counter of the user and the endpoint
\* with ttl 3600; None (cache disabled, or the command failing) passes.
CheckRateLimit(gap, ok) ==
    /\ Len(rl_times) < MaxRateRequests
    /\ cache_enabled \/ ok
    /\ now' = IF rl_times = <<>> THEN now ELSE now + gap
    /\ rl_times' = Append(rl_times, now')
    /\ store' = IF Answers(cache_enabled, ok)
                THEN RedisIncrExpire(store, CounterKey, 1, API_USAGE_TTL, now')
                ELSE store
    /\ rl_verdict' = IF Answers(cache_enabled, ok) /\ store'[CounterKey].val > rl_limit
                     THEN "429"
                     ELSE "passed"
    /\ UNCHANGED <<rl_limit, rl_req, rl_log, cacheRestVars>>
    /\ UNCHANGED notRateVars

\* usage = track_api_usage(user_id, endpoint) on a request thread: the server
\* runs INCR and EXPIRE 3600 as one transaction and the thread gets the new
\* count, or None when the cache is disabled or the command fails.  The
\* threads are alike: the idle one with the lowest number takes the request.
TrackApiUsage(t, ok) ==
    /\ rl_req[t].pc = "idle"
    /\ \A v \in RateThreads : v < t => rl_req[v].pc # "idle"
    /\ Len(rl_log) < MaxRateRequests
    /\ cache_enabled \/ ok
    /\ LET answered == Answers(cache_enabled, ok)
           usage == IF answered THEN store'[CounterKey].val ELSE NoCount
       IN  /\ store' = IF answered
                       THEN RedisIncrExpire(store, CounterKey, 1, API_USAGE_TTL, now)
                       ELSE store
           /\ rl_req' = [rl_req EXCEPT ![t] =
                  [pc |-> "compare", usage |-> usage, at |-> Len(rl_log) + 1]]
           /\ rl_log' = Append(rl_log,
                  [thread |-> t, usage |-> usage, verdict |-> "pending",
                   first |-> answered /\ ~Live(store, CounterKey, now)])
    /\ UNCHANGED <<rl_times, rl_verdict, rl_limit, now, cacheRestVars>>
    /\ UNCHANGED notRateVars

\* A faulty variant: it rejects the request that reaches the limit.
CompareUsageInclusive(t) ==
    /\ rl_req[t].pc = "compare"
    /\ rl_log' = [rl_log EXCEPT ![rl_req[t].at].verdict =
           IF rl_req[t].usage # NoCount /\ rl_req[t].usage >= rl_limit
           THEN "429" ELSE "passed"]
    /\ rl_req' = [rl_req EXCEPT ![t] = IdleCheck]
    /\ UNCHANGED <<rl_times, rl_verdict, rl_limit, cacheVars>>
    /\ UNCHANGED notRateVars

\* A faulty variant: without a count it rejects.
CompareUsageClosed(t) ==
    /\ rl_req[t].pc = "compare"
    /\ rl_log' = [rl_log EXCEPT ![rl_req[t].at].verdict =
           IF rl_req[t].usage = NoCount \/ rl_req[t].usage > rl_limit
           THEN "429" ELSE "passed"]
    /\ rl_req' = [rl_req EXCEPT ![t] = IdleCheck]
    /\ UNCHANGED <<rl_times, rl_verdict, rl_limit, cacheVars>>
    /\ UNCHANGED notRateVars

\* if usage and usage > limit: raise HTTPException(429, ...)
CompareUsage(t) ==
    /\ rl_req[t].pc = "compare"
    /\ rl_log' = [rl_log EXCEPT ![rl_req[t].at].verdict =
           IF rl_req[t].usage # NoCount /\ rl_req[t].usage # 0
              /\ rl_req[t].usage > rl_limit
           THEN "429" ELSE "passed"]
    /\ rl_req' = [rl_req EXCEPT ![t] = IdleCheck]
    /\ UNCHANGED <<rl_times, rl_verdict, rl_limit, cacheVars>>
    /\ UNCHANGED notRateVars

NoExec ==
    [name |-> "none",
     args |-> ExecArgs(<<>>, NoArg, NoArg, FALSE, FALSE, NoArg),
     env |-> ExecEnv({}, FALSE, FALSE, "none", "ok")]

InitRegistry ==
    /\ x_call = NoExec
    /\ x_result = NoResult

ParkedRegistry == InitRegistry

\* The calls explored: each function with the arguments and the surroundings
\* its branch looks at.
ExecInputs ==
    {[name |-> "list_available_files",
      args |-> ExecArgs(u, NoArg, NoArg, FALSE, FALSE, NoArg),
      env |-> ExecEnv(c, lh, FALSE, f, "ok")] :
        u \in Users, c \in Containers, lh \in BOOLEAN, f \in {"none", "storage"}}
    \cup {[name |-> fn,
           args |-> ExecArgs(u, a, NoArg, TRUE, FALSE, NoArg),
           env |-> ExecEnv(c, lh, h, f, "ok")] :
        fn \in {"analyze_sales_file", "no_such_function"}, u \in Users,
        a \in FilenameArgs, c \in Containers, lh \in BOOLEAN, h \in BOOLEAN, f \in Faults}
    \cup {[name |-> "query_sales_data",
           args |-> ExecArgs(u, a, NoArg, q, FALSE, NoArg),
           env |-> ExecEnv(c, FALSE, h, f, "ok")] :
        u \in Users, a \in FilenameArgs, q \in BOOLEAN, c \in Containers,
        h \in BOOLEAN, f \in Faults}
    \cup {[name |-> "forecast_sales_demand",
           args |-> ExecArgs(u, a, p, FALSE, FALSE, NoArg),
           env |-> ExecEnv(c, FALSE, h, f, "ok")] :
        u \in Users, a \in FilenameArgs, p \in PeriodArgs, c \in {{}, BlobNames},
        h \in BOOLEAN, f \in {"none", "compute"}}
    \cup {[name |-> "market_research",
           args |-> ExecArgs(U1, NoArg, NoArg, FALSE, r, l),
           env |-> ExecEnv({}, FALSE, FALSE, "none", s)] :
        r \in BOOLEAN, l \in {NoArg, IntArg(2), StrArg(<<"2">>)}, s \in SearchStates}

\* The arguments the loop hands over, as the registry sees them.  A call
\* without user_id reaches the f-strings as "None".
RegistryArgs(function_args) ==
    ExecArgs(IF "user_id" \notin DOMAIN function_args THEN <<"N", "o", "n", "e">>
             ELSE IF function_args["user_id"] = "owner" THEN U1 ELSE U2,
             IF "filename" \in DOMAIN function_args THEN StrArg(<<"a">>) ELSE NoArg,
             NoArg, FALSE, FALSE, NoArg)

AssistantEnvs ==
    {ExecEnv(BlobNames, FALSE, FALSE, "none", "ok"),
     ExecEnv({}, TRUE, FALSE, "storage", "ok")}

\* The loop of the /assistant endpoint: function_executor is execute_function,
\* which returns a mapping in every case.
ToolCallRegistry(env) ==
    /\ CallExecutor(FALSE)
    /\ LET call == tool_calls[tc_index]
           function_args == DictUpdate(JsonLoads(call.arguments).value, context)
       IN  /\ x_call' = [name |-> call.name, args |-> RegistryArgs(function_args),
                         env |-> env]
           /\ x_result' = ExecuteFunction(call.name, RegistryArgs(function_args), env)
    /\ UNCHANGED <<quotaVars, cacheVars, fileVars, clientVars, keyVars, rateVars,
                   orderVars, researchVars, clearVars>>

\* A standalone call of the registry.
Execute(input) ==
    /\ x_call = NoExec
    /\ x_call' = input
    /\ x_result' = ExecuteFunction(input.name, input.args, input.env)
    /\ UNCHANGED notRegistryVars

\* The caller has taken the result.
ExecuteReturn ==
    /\ x_call # NoExec
    /\ x_call' = NoExec
    /\ x_result' = NoResult
    /\ UNCHANGED notRegistryVars

(***************************************************************************)
(* Specifications                                                          *)
(***************************************************************************)
\* The registry, the key builder and the rate limiter at rest.
ParkedMore ==
    ParkedRegistry /\ ParkedKeys /\ ParkedRate /\ ParkedOrder /\ ParkedResearch
    /\ ParkedClear

NextLoop == LoopStep

InitSpecLoop == InitLoop /\ ParkedQuota /\ ParkedCache /\ ParkedFiles /\ ParkedMore

SpecLoop == InitSpecLoop /\ [][NextLoop]_vars

\* The loop before any invocation.
ParkedLoop == InitLoop /\ max_iterations = 0 /\ context = <<>>

NextQuota == QuotaStep(Threads)

InitSpecQuota == InitQuota /\ ParkedLoop /\ ParkedCache /\ ParkedFiles /\ ParkedMore

SpecQuota == InitSpecQuota /\ [][NextQuota]_vars

NextQuotaSeq == QuotaStep({1})

SpecQuotaSeq == InitSpecQuota /\ [][NextQuotaSeq]_vars

\* One caller at a time, and restarts of the process.
NextRestart == QuotaStep({1}) \/ Restart

SpecRestart == InitSpecQuota /\ [][NextRestart]_vars

NextIncr ==
    \/ \E dt \in AdvanceSteps : Advance(dt)
    \/ \E c \in Clients, ttl \in TtlChoices : IncrementCall(c, ttl)
    \/ \E c \in Clients : IncrementDisabled(c)
    \/ \E c \in Clients : IncrementExecute(c)
    \/ \E c \in Clients : IncrementFails(c)

InitSpecIncr == InitCache /\ ParkedLoop /\ ParkedQuota /\ ParkedFiles /\ ParkedMore

SpecIncr == InitSpecIncr /\ [][NextIncr]_vars

NextPattern ==
    \/ Advance(FILE_LIST_TTL)
    \/ \E k \in PatternKeys, v \in Payloads : CacheSet(k, v, FILE_LIST_TTL)
    \/ \E k \in PatternKeys : CacheDelete(k)
    \/ \E p \in Patterns, b \in 1..MaxBatch : DeletePatternBegin(p, b)
    \/ ScanStep
    \/ DeletePatternReturn
    \/ ScanFails

SpecPattern == InitSpecIncr /\ [][NextPattern]_vars

\* delete_pattern over a cache that holds entries already.
InitSpecScan ==
    /\ cache_enabled \in BOOLEAN
    /\ ReadyClient
    /\ store \in FilledStores(PatternKeys)
    /\ IdleCalls
    /\ ParkedLoop /\ ParkedQuota /\ ParkedFiles /\ ParkedMore

NextScan ==
    \/ \E p \in Patterns, b \in 1..MaxBatch : DeletePatternBegin(p, b)
    \/ ScanStep
    \/ ScanFails
    \/ DeletePatternReturn

\* The loop of delete_pattern keeps running: the thread is scheduled and
\* every command to the backend returns or raises within its socket timeout.
SpecScan == InitSpecScan /\ [][NextScan]_vars /\ WF_vars(ScanStep)

InitSpecFiles == InitCache /\ InitFiles /\ ParkedLoop /\ ParkedQuota /\ ParkedMore

\* Requests handled one after another.
NextFilesSeq == FileStep({1})

SpecFilesSeq == InitSpecFiles /\ [][NextFilesSeq]_vars

\* Requests handled by the thread pool.
NextFiles == FileStep(Workers)

SpecFiles == InitSpecFiles /\ [][NextFiles]_vars

\* Users clear their caches, which hold entries already.
InitSpecClear ==
    /\ cache_enabled \in BOOLEAN
    /\ ReadyClient
    /\ store \in FilledStores(ClearKeys)
    /\ IdleCalls
    /\ ParkedLoop /\ ParkedQuota /\ ParkedFiles /\ ParkedMore

NextClear ==
    \/ \E u \in Users, okFiles \in BOOLEAN, okAnalytics \in BOOLEAN,
          okForecast \in BOOLEAN, okPreview \in BOOLEAN :
          ClearUserCache(u, okFiles, okAnalytics, okForecast, okPreview)
    \/ ClearReturn

SpecClear == InitSpecClear /\ [][NextClear]_vars

\* Analyses and forecasts that can fail.
NextFailing == FailingStep(Workers)

SpecFailing == InitSpecFiles /\ [][NextFailing]_vars

\* One caller of get, set and delete on a constructed client.
NextClient ==
    \/ Advance(FILE_LIST_TTL)
    \/ \E o \in BackendOutcomes, deleted \in BOOLEAN : ApiGet(ClientKey, o, deleted)
    \/ \E v \in SetValues, ttl \in TtlChoices, o \in {"reply", "ConnectionError"} :
          ApiSet(ClientKey, v, ttl, o)
    \/ \E o \in {"reply", "ConnectionError"} : ApiDelete(ClientKey, o)
    \/ \E text \in CorruptTexts : CorruptEntry(ClientKey, text)

SpecClient == InitSpecIncr /\ [][NextClient]_vars

\* Construction of the client, then calls of its methods.
NextStartup ==
    \/ Construct
    \/ \E o \in BackendOutcomes : ConnectAttempt(o)
    \/ SleepBeforeRetry
    \/ \E k \in ClientKeys, o \in BackendOutcomes, deleted \in BOOLEAN : ApiGet(k, o, deleted)
    \/ \E k \in ClientKeys, o \in BackendOutcomes : ApiSet(k, PyZero, DEFAULT_TTL, o)
    \/ \E k \in ClientKeys, o \in BackendOutcomes : ApiDelete(k, o)
    \/ IncrementCall(1, DEFAULT_TTL)
    \/ IncrementDisabled(1)
    \/ IncrementExecute(1)
    \/ IncrementFails(1)
    \/ DeletePatternBegin(GenerateKey(S_analytics, <<S_star>>), 1)
    \/ ScanStep
    \/ ScanFails
    \/ DeletePatternReturn

InitSpecStartup == InitStartup /\ ParkedLoop /\ ParkedQuota /\ ParkedFiles /\ ParkedMore

SpecStartup == InitSpecStartup /\ [][NextStartup]_vars

AssistantStep ==
    \/ \E content \in {"", "final text"} : ProviderAnswers(content)
    \/ \E reqs \in ResponsesWithTools : ProviderRequestsTools(reqs)
    \/ ProviderFails
    \/ ToolCallBadJson
    \/ ToolCallNotObject
    \/ \E env \in AssistantEnvs : ToolCallRegistry(env)
    \/ LoopExhausted

NextAssistant == AssistantStep

InitSpecAssistant ==
    InitLoop /\ InitRegistry /\ ParkedQuota /\ ParkedCache /\ ParkedFiles
    /\ ParkedKeys /\ ParkedRate /\ ParkedOrder /\ ParkedResearch
    /\ ParkedClear

\* One invocation of the loop with execute_function as its executor.
SpecAssistant == InitSpecAssistant /\ [][NextAssistant]_vars

NextOrdered == OrderedStep

InitSpecOrdered ==
    InitCache /\ cache_enabled /\ InitOrderedFiles /\ InitOrder /\ ParkedLoop /\ ParkedQuota
    /\ ParkedRegistry /\ ParkedKeys /\ ParkedRate /\ ParkedResearch
    /\ ParkedClear

\* The file endpoints of one user, each request on a thread of its own.
SpecOrdered == InitSpecOrdered /\ [][NextOrdered]_vars

NextRate == \E gap \in RateGaps, ok \in BOOLEAN : CheckRateLimit(gap, ok)

InitSpecRate ==
    InitCache /\ InitRate /\ ParkedLoop /\ ParkedQuota /\ ParkedFiles
    /\ ParkedRegistry /\ ParkedKeys /\ ParkedOrder /\ ParkedResearch
    /\ ParkedClear

\* The requests of one user to one rate-limited endpoint.
SpecRate == InitSpecRate /\ [][NextRate]_vars

NextLimiter ==
    \/ \E t \in RateThreads, ok \in BOOLEAN : TrackApiUsage(t, ok)
    \/ \E t \in RateThreads : CompareUsage(t)
    \/ Advance(HOUR)

\* Concurrent requests of one user to one rate-limited endpoint.
SpecLimiter == InitSpecRate /\ [][NextLimiter]_vars

NextResearch == ResearchStep

InitSpecResearch ==
    InitQuota /\ usage_data.date = today /\ InitCache /\ cache_enabled /\ InitResearch /\ ParkedLoop /\ ParkedFiles
    /\ ParkedRegistry /\ ParkedKeys /\ ParkedRate /\ ParkedOrder /\ ParkedClear

\* Market-research requests served one after another.
SpecResearch == InitSpecResearch /\ [][NextResearch]_vars

NextKeys ==
    \/ \E left \in KeyTuples, right \in KeyTuples : BuildKeys(left, right)
    \/ ForgetKeys

InitSpecKeys ==
    InitKeys /\ ParkedLoop /\ ParkedQuota /\ ParkedCache /\ ParkedFiles
    /\ ParkedRegistry /\ ParkedRate /\ ParkedOrder /\ ParkedResearch
    /\ ParkedClear

\* _generate_key applied to pairs of argument tuples.
SpecKeys == InitSpecKeys /\ [][NextKeys]_vars

NextExec ==
    \/ \E input \in ExecInputs : Execute(input)
    \/ ExecuteReturn

InitSpecExec ==
    InitRegistry /\ ParkedLoop /\ ParkedQuota /\ ParkedCache /\ ParkedFiles
    /\ ParkedKeys /\ ParkedRate /\ ParkedOrder /\ ParkedResearch
    /\ ParkedClear

SpecExec == InitSpecExec /\ [][NextExec]_vars

(***************************************************************************)
(* Properties of the orchestration loop                                    *)
(***************************************************************************)

\* C1: with a provider that requests a tool call in every response, the loop
\* makes exactly max_iterations provider requests and then returns the
\* fallback message; it never makes one request more.
C1_AlwaysToolProviderEndsInFallback ==
    /\ requests <= max_iterations
    /\ (loop_pc = "done" /\ all_tool_rounds) =>
          /\ requests = max_iterations
          /\ outcome = "fallback"
          /\ response = FallbackMessage

\* The model-supplied arguments without the keys the context supplies.
WithoutKeys(d, keys) == [k \in DOMAIN d \ keys |-> d[k]]

\* C2: every argument map handed to the executor carries the context's value
\* for every context key, and two dispatched calls of the same function whose
\* model-supplied arguments differ only in context keys get identical maps.
C2_ContextWinsOverModelArguments ==
    \A i \in 1..Len(dispatched) :
        /\ \A k \in DOMAIN context :
              k \in DOMAIN dispatched[i].args /\ dispatched[i].args[k] = context[k]
        /\ \A j \in 1..Len(dispatched) :
              (WithoutKeys(JsonLoads(dispatched[i].arguments).value, DOMAIN context)
                 = WithoutKeys(JsonLoads(dispatched[j].arguments).value, DOMAIN context))
              => dispatched[i].args = dispatched[j].args

\* Witness of C2: under a context with user_id, a call whose model arguments
\* name another user and a call without user_id have both been dispatched.
C2_Witness ==
    /\ "user_id" \in DOMAIN context
    /\ \E i, j \in 1..Len(dispatched) :
          /\ dispatched[i].arguments = ArgObjAttacker
          /\ dispatched[j].arguments = ArgObjPlain
          /\ dispatched[i].args["user_id"] = "owner"

NoDanglingToolResult(conv) ==
    \A i \in 1..Len(conv) :
        conv[i].role = "tool" =>
            \E j \in 1..(i - 1) :
                /\ conv[j].role = "assistant"
                /\ \E c \in 1..Len(conv[j].tool_calls) :
                      conv[j].tool_calls[c].id = conv[i].tool_call_id

\* C3: in the conversation, as held and as sent to the provider, every tool
\* message answers a tool call of an assistant message that precedes it.
C3_NoDanglingToolResult ==
    NoDanglingToolResult(messages) /\ NoDanglingToolResult(sent)

\* Witness of C3: a conversation with two tool results has been sent.
C3_Witness ==
    Cardinality({i \in 1..Len(sent) : sent[i].role = "tool"}) >= 2

\* The tool call the inner loop is at has arguments that json.loads rejects.
AtUnparsableCall ==
    loop_pc = "dispatch" /\ ~JsonLoads(tool_calls[tc_index].arguments).ok

InvalidArgumentsMessage(id) ==
    [role |-> "tool", content |-> "Invalid function arguments",
     tool_calls |-> <<>>, tool_call_id |-> id]

\* C18: a tool call with unparsable arguments is answered by an
\* invalid-arguments tool message under its id and is not handed to the
\* executor; the loop goes on with the next tool call of the round, or with
\* the next provider request after the last one.
C18_UnparsableArgumentsAnswered ==
    [][/\ AtUnparsableCall =>
            /\ messages' = Append(messages,
                                  InvalidArgumentsMessage(tool_calls[tc_index].id))
            /\ dispatched' = dispatched
            /\ outcome' = "running" /\ requests' = requests
            /\ tool_calls' = tool_calls
            /\ IF tc_index < Len(tool_calls)
               THEN loop_pc' = "dispatch" /\ tc_index' = tc_index + 1
                    /\ iteration' = iteration
               ELSE loop_pc' = "request" /\ iteration' = iteration + 1
       /\ \A i \in 1..Len(dispatched') : JsonLoads(dispatched'[i].arguments).ok]_vars

\* A round whose first call was unparsable and whose second was executed has
\* been sent back to the provider.
C18_Witness ==
    \E i \in 1..Len(sent) :
        /\ sent[i].role = "assistant" /\ Len(sent[i].tool_calls) >= 2
        /\ ~JsonLoads(sent[i].tool_calls[1].arguments).ok
        /\ i + 2 <= Len(sent)
        /\ sent[i + 1] = InvalidArgumentsMessage(sent[i].tool_calls[1].id)
        /\ sent[i + 2].content = "executor result"
        /\ \E d \in 1..Len(dispatched) : dispatched[d].id = sent[i].tool_calls[2].id

\* The step is a provider request that brings neither an answer nor tool
\* calls: the request failed.
ProviderRequestFailed ==
    /\ requests' = requests + 1
    /\ outcome' # "answer"
    /\ messages' = messages

\* C19: a failed provider request ends the invocation with the error and
\* without a response; after it no provider request and no tool call is made.
C19_ProviderFailureIsFatal ==
    [][/\ ProviderRequestFailed =>
            (outcome' = "raised" /\ loop_pc' = "done" /\ response' = NoText
               /\ dispatched' = dispatched)
       /\ outcome = "raised" =>
            (requests' = requests /\ dispatched' = dispatched
               /\ messages' = messages /\ outcome' = "raised"
               /\ response' = NoText)]_vars

\* The provider failed in the second round, after a tool call of the first
\* round had been executed.
C19_Witness ==
    /\ outcome = "raised" /\ loop_pc = "done"
    /\ requests = 2 /\ sent = messages
    /\ Len(dispatched) >= 1
    /\ response = NoText

\* Every assistant message of conv is followed directly by one tool message
\* per tool call, in the order of its tool calls, and no other tool message
\* carries the id of one of its calls.
RoundsResolved(conv) ==
    \A i \in 1..Len(conv) :
        conv[i].role = "assistant" =>
            \A c \in 1..Len(conv[i].tool_calls) :
                /\ i + c <= Len(conv)
                /\ conv[i + c].role = "tool"
                /\ conv[i + c].tool_call_id = conv[i].tool_calls[c].id
                /\ Cardinality({j \in 1..Len(conv) :
                        /\ conv[j].role = "tool"
                        /\ conv[j].tool_call_id = conv[i].tool_calls[c].id}) = 1

\* C20: the executor is called in the order the calls were listed, and the
\* conversation of every provider request has, directly after each assistant
\* message, exactly one tool message per tool call in the order of the calls.
C20_RoundsResolvedInOrder ==
    /\ RoundsResolved(sent)
    /\ \A a \in 1..Len(dispatched) : \A b \in 1..Len(dispatched) :
          a < b => dispatched[a].id < dispatched[b].id
    /\ loop_pc = "request" => RoundsResolved(messages)

\* A round of two executed tool calls has been sent to the provider with its
\* two results in the order of the calls.
C20_Witness ==
    /\ requests >= 2
    /\ \E i \in 1..Len(sent) :
          /\ sent[i].role = "assistant" /\ Len(sent[i].tool_calls) = 2
          /\ Len(sent) >= i + 2
          /\ sent[i + 1].tool_call_id = sent[i].tool_calls[1].id
          /\ sent[i + 2].tool_call_id = sent[i].tool_calls[2].id
          /\ \E a \in 1..Len(dispatched) :
                /\ a + 1 <= Len(dispatched)
                /\ dispatched[a].id = sent[i].tool_calls[1].id
                /\ dispatched[a + 1].id = sent[i].tool_calls[2].id

\* C21: a response without tool calls ends the loop in its round: nothing is
\* dispatched, the response text (the apology if it is empty) is returned,
\* the requests made are as many as the rounds begun, and nothing follows.
C21_AnswerEndsTheLoop ==
    [][/\ (outcome = "running" /\ outcome' = "answer") =>
            /\ loop_pc = "request" /\ loop_pc' = "done"
            /\ dispatched' = dispatched /\ messages' = messages
            /\ response' \in {"final text", ApologyMessage}
            /\ requests' = requests + 1
            /\ requests' = iteration + 1
       /\ outcome = "answer" =>
            (outcome' = "answer" /\ response' = response /\ requests' = requests
               /\ dispatched' = dispatched)]_vars

\* The response of the second round had no tool calls and no text: the
\* apology was returned after two requests.
C21_Witness ==
    /\ outcome = "answer" /\ response = ApologyMessage
    /\ requests = 2 /\ iteration = 1
    /\ Len(dispatched) >= 1

(***************************************************************************)
(* Properties of the search quota                                          *)
(***************************************************************************)

\* C4: under concurrent callers no update of the daily counter is lost: the
\* counter of a date equals the number of successful searches that
\* incremented the counter of that date.
C4_NoLostUpdate ==
    usage_data.count = recorded[usage_data.date]

\* C5: with at most NumThreads searches in flight, the searches performed on
\* one date never exceed the limit by more than NumThreads - 1.
C5_BoundedOvershoot ==
    \A d \in Days : recorded[d] <= DAILY_LIMIT + NumThreads - 1

\* C7: with one caller at a time the counter equals the number K of
\* recordings of its date, _can_search is false exactly when K >= limit, a
\* search goes out only while K < limit, the first call after a date change
\* resets the counter to the new date, and there is at most one reset per
\* date change.
C7_SequentialQuotaAndDailyReset ==
    /\ usage_data.count = recorded[usage_data.date]
    /\ CanSearch(usage_data) <=> recorded[usage_data.date] < DAILY_LIMIT
    /\ q_pc[1] \in {"request", "incr", "store"} =>
          recorded[usage_data.date] < DAILY_LIMIT
    /\ q_result[1] = "quota exhausted" => recorded[usage_data.date] >= DAILY_LIMIT
    /\ q_pc[1] \in {"check", "stats"} => usage_data.date = q_today[1]
    /\ resets <= today - first_date
    /\ usage_data.date # first_date => resets >= 1

\* Witness of C7: the quota of the first date was used up, and after the date
\* change a search is let through again on a counter reset to zero.
C7_Witness ==
    /\ recorded[first_date] >= DAILY_LIMIT
    /\ usage_data.date > first_date
    /\ usage_data.count = 0
    /\ q_pc[1] = "request"

(***************************************************************************)
(* Properties of the cache client                                          *)
(***************************************************************************)

\* C8: increment is an atomic read-modify-write that re-applies the TTL on
\* every call.  While the counter lives, the n increments executed since it
\* was created have returned the n distinct values 1..n and the counter
\* holds n; its expiry time is the time of the last increment plus that
\* call's ttl, so it is gone once ttl seconds pass without an increment.
C8_IncrementAtomicWithTtl ==
    /\ Live(store, CounterKey, now) =>
          /\ store[CounterKey].val = incr_calls
          /\ incr_returns = 1..incr_calls
          /\ store[CounterKey].exp = incr_last.at + incr_last.ttl
    /\ (incr_calls > 0 /\ now >= incr_last.at + incr_last.ttl) =>
          RedisGet(store, CounterKey, now) = Nil
    /\ (incr_calls > 0 /\ now < incr_last.at + incr_last.ttl) =>
          Live(store, CounterKey, now)

\* Two clients were inside increment together and both have returned.
C8_Witness ==
    /\ Live(store, CounterKey, now)
    /\ incr_calls = 2
    /\ i_pc[1] = "idle" /\ i_pc[2] = "idle"
    /\ {i_result[1], i_result[2]} = {1, 2}
    /\ cache_ops = 2

\* The keys delete_pattern was to remove: those live and matching on entry.
DpMatching == Matching(dp_before, dp_pattern, dp_start)

\* C9: delete_pattern on a connected store, completing without failure and
\* with no other writer in between, removes exactly the keys that matched
\* the pattern on entry, returns their number and leaves every other key
\* with its value, whatever the batch size and the number of scan batches.
C9_DeletePatternExact ==
    (dp_pc = "done" /\ cache_enabled /\ ~dp_failed /\ now = dp_start)
    => /\ dp_result = Cardinality(DpMatching)
       /\ store = RedisDel(dp_before, DpMatching)
       /\ \A k \in StoreKeys \ DpMatching :
             RedisGet(store, k, now) = RedisGet(dp_before, k, dp_start)

\* A delete_pattern run of several batches removed two keys and kept another.
C9_Witness ==
    /\ dp_pc = "done" /\ ~dp_failed /\ now = dp_start
    /\ dp_batches >= 2
    /\ dp_result = 2
    /\ Cardinality(DpMatching) = 2
    /\ store = RedisDel(dp_before, DpMatching)
    /\ \E k \in StoreKeys \ DpMatching : Live(store, k, now)

(***************************************************************************)
(* Properties of the file requests                                         *)
(***************************************************************************)

\* Every key of the analytics, forecast and preview namespaces that is
\* composed from a user and a dataset.
DatasetKeys(user_id, blob_name) ==
    {AnalyticsKey(user_id, blob_name)}
    \cup {ForecastKey(user_id, blob_name, p) : p \in PeriodChoices}
    \cup {PreviewKey(user_id, blob_name, n) : n \in RowChoices}

\* C6: when delete_user_file has returned success for dataset D of user U,
\* its invalidations having been carried out by the cache, no entry keyed by (U, D) is left in the analytics, forecast and preview
\* namespaces, and no analytics, forecast or preview request is answered
\* from the cache with data of a file that is no longer stored.
C6_DeleteInvalidatesEveryNamespace ==
    \A w \in {1} :
        LET q == req[w]
        IN  /\ (q.op = "delete" /\ q.pc = "done" /\ q.status = "200" /\ q.ok)
                => \A k \in DatasetKeys(q.user_id, q.blob_name) : ~Live(store, k, now)
            /\ (q.op \in {"analytics", "forecast", "preview"} /\ q.pc = "done" /\ q.hit)
                => q.blob_name \in blobs

\* A wrapped computation has returned a result on a cache that answered.
Completed(q) ==
    /\ q.op \in WrappedOps
    /\ q.pc = "done"
    /\ q.status = "200"
    /\ cache_enabled
    /\ q.ok

\* Hit: the unexpired entry is returned and nothing is computed.
ReadOnHit(q) ==
    q.seen # Absent => (q.hit /\ q.computed = 0 /\ q.result = q.seen.val)

\* Miss: the computation ran once and its result is returned.
ComputeOnMiss(q) ==
    q.seen = Absent =>
        (~q.hit /\ q.computed = 1 /\ q.result = Compute(q, blobs))

\* The entry a miss writes: the returned result, expiring after the ttl of
\* the capability.
EntryOf(q) == [val |-> q.result, exp |-> q.at + TtlOf(q.op)]

EmptyListing(q) == q.op = "list" /\ q.result.files = {}

\* C10 as stated: the wrapped computations are read-through; a hit returns
\* the cached value without computing, a miss computes once, stores the
\* result under the key with the capability's ttl and returns it.
C10_ReadThroughStoresEveryResult ==
    \A w \in {1} :
        Completed(req[w]) =>
            /\ ReadOnHit(req[w])
            /\ ComputeOnMiss(req[w])
            /\ req[w].seen = Absent => req[w].written = EntryOf(req[w])

\* C10 amended: as stated, except that get_user_files does not store an
\* empty listing; every other result of a miss is stored under the key with
\* the capability's ttl.
C10_ReadThroughExceptEmptyListing ==
    \A w \in {1} :
        Completed(req[w]) =>
            /\ ReadOnHit(req[w])
            /\ ComputeOnMiss(req[w])
            /\ (req[w].seen = Absent /\ ~EmptyListing(req[w]))
                  => req[w].written = EntryOf(req[w])
            /\ (req[w].seen = Absent /\ EmptyListing(req[w]))
                  => (req[w].written = Absent /\ ~Live(store, KeyOf(req[w]), now))

\* A preview was computed and stored, and the next preview of the same
\* dataset was answered from that entry.
C10_Witness ==
    /\ Completed(req[1])
    /\ req[1].op = "preview"
    /\ req[1].hit
    /\ req[1].computed = 0
    /\ req[1].result = Compute(req[1], blobs)
    /\ file_requests >= 2

\* C11: with the cache disabled, or with none of a request's cache commands
\* answered, a wrapped computation ends as it would on a working cache with
\* an empty store: it computes once and returns the fresh result, and the
\* only errors are those of the request itself (a blob that is not stored,
\* a blob of another user).
C11_DegradesToComputation ==
    \A w \in {1} :
        LET q == req[w]
        IN  (q.op \in WrappedOps /\ q.pc = "done" /\ (~cache_enabled \/ q.down))
            => /\ q.status \in {"200", "403", "404"}
               /\ q.status = "403" => ~OwnedBy(q.blob_name, q.user_id)
               /\ q.status = "404" => q.blob_name \notin blobs
               /\ q.status = "200" =>
                     (~q.hit /\ q.computed = 1 /\ q.result = Compute(q, blobs))

\* A live entry existed, the backend did not answer, and the preview was
\* computed afresh.
C11_Witness ==
    /\ cache_enabled
    /\ req[1].op = "preview" /\ req[1].pc = "done" /\ req[1].status = "200"
    /\ req[1].down
    /\ req[1].seen # Absent
    /\ req[1].computed = 1
    /\ req[1].result = Compute(req[1], blobs)

(***************************************************************************)
(* Properties of the cache client's construction and methods               *)
(***************************************************************************)

\* The retry loop: at most MAX_RETRIES attempts, each wait longer than the
\* one before, and a disabled client when every attempt failed.
BoundedGrowingRetries ==
    /\ pings <= MAX_RETRIES
    /\ Len(sleeps) <= MAX_RETRIES - 1
    /\ \A i \in 1..Len(sleeps) : \A j \in 1..Len(sleeps) :
          i < j => sleeps[i] < sleeps[j]
    /\ (conn_pc = "ready" /\ pings > 0 /\ failures = pings) => ~cache_enabled
    /\ (conn_pc = "ready" /\ failures < pings) => cache_enabled

\* An increment call of client c has returned.
IncrementReturned(c) == i_ttl[c] # 0 /\ i_pc[c] = "idle"

\* Disabled mode: get gives None, set and delete give False, delete_pattern
\* gives 0; nothing raises and no command is sent.
DisabledAnswers ==
    (conn_pc = "ready" /\ ~cache_enabled) =>
        /\ api.op = "get" => api.result = PyNone
        /\ api.op \in {"set", "delete"} => api.result = PyFalse
        /\ ~api.raised /\ ~api.contacted
        /\ dp_pc = "done" => (dp_result = 0 /\ dp_batches = 0 /\ ~dp_failed)
        /\ store = EmptyStore

\* C12 as stated: bounded retries with growing delay, then disabled mode, in
\* which increment returns 0 like delete_pattern.
C12_DisabledIncrementReturnsZero ==
    /\ BoundedGrowingRetries
    /\ DisabledAnswers
    /\ (conn_pc = "ready" /\ ~cache_enabled) =>
          \A c \in Clients : IncrementReturned(c) => i_result[c] = 0

\* C12 amended: as stated, except that increment returns None in disabled mode.
C12_DisabledIncrementReturnsNone ==
    /\ BoundedGrowingRetries
    /\ DisabledAnswers
    /\ (conn_pc = "ready" /\ ~cache_enabled) =>
          \A c \in Clients : IncrementReturned(c) => i_result[c] = NoCount

\* Every attempt failed, the waits were 2 and 4 seconds, and the disabled
\* client has answered a get, an increment and a delete_pattern.
C12_Witness ==
    /\ conn_pc = "ready" /\ ~cache_enabled
    /\ pings = MAX_RETRIES /\ failures = MAX_RETRIES
    /\ sleeps = <<RETRY_DELAY, 2 * RETRY_DELAY>>
    /\ api.op = "get"
    /\ IncrementReturned(1)
    /\ dp_pc = "done"

\* The step is a call of the client's method op.
Calls(op) == cache_ops' = cache_ops + 1 /\ api'.op = op

BackendFailures == BackendOutcomes \ {"reply"}

\* C13: get never raises; when the backend fails it returns None and the
\* store is left as it was.
C13_GetNeverRaises ==
    [][Calls("get") =>
         /\ ~api'.raised
         /\ api'.exc \in BackendFailures =>
               (api'.result = PyNone /\ store' = store)]_vars

\* A get of a live entry met a backend error other than a connection error.
C13_Witness ==
    /\ api.op = "get" /\ api.exc = "ResponseError"
    /\ api.prior # Absent /\ api.prior.exp > api.at
    /\ api.result = PyNone /\ ~api.raised
    /\ store[api.key] = api.prior

\* The step is an answered get of the key that the call just before it, at
\* the same instant, stored with set.
GetRightAfterSet ==
    /\ api.op = "set" /\ api.result = PyTrue /\ api.n = cache_ops
    /\ Calls("get") /\ api'.key = api.key /\ api'.at = api.at
    /\ api'.exc = "none"

\* C14: a get right after a successful set of the same key returns a value
\* equal to the one that was set.
C14_RoundTripEqual ==
    [][GetRightAfterSet => api'.result = api.value]_vars

\* C15: with no write or delete since set(k, v, t), an answered get returns
\* v before t seconds have passed and absent once they have.
C15_ExpiryExact ==
    [][(Calls("get") /\ api'.exc = "none" /\ last_set[api'.key] # NoSet) =>
         LET w == last_set[api'.key]
         IN  api'.result = IF now >= w.at + w.ttl THEN PyNone ELSE w.value]_vars

GetOfCorrupt ==
    /\ Calls("get") /\ api'.exc \notin BackendFailures
    /\ api'.cleanup # "failed"
    /\ Live(store, api'.key, now)
    /\ store[api'.key].val \in CorruptTexts

JsonNative == {"int", "bool", "list"}

C22_AlwaysStatusMapping ==
    x_call # NoExec =>
        /\ ~x_result.raised
        /\ x_result.status \in {"success", "error"}
        /\ x_result.status = "error" => x_result.message \notin {"absent", ""}

\* The step hands a call with an unregistered name to the registry.
DispatchesUnknown ==
    /\ loop_pc = "dispatch"
    /\ Len(dispatched') = Len(dispatched) + 1
    /\ tool_calls[tc_index].name \notin (FunctionNames \ {"no_such_function"})

\* C23: a call of an unregistered name returns an error result naming the
\* function and uses no storage, cache or search; the loop appends the result
\* as the tool message of the call and goes on.
C23_UnknownFunctionIsAnErrorResult ==
    [][DispatchesUnknown =>
         /\ ~x_result'.raised /\ x_result'.status = "error"
         /\ x_result'.message = "Unknown function: " \o tool_calls[tc_index].name
         /\ x_result'.effects = {}
         /\ messages' = Append(messages,
                               [role |-> "tool", content |-> "executor result",
                                tool_calls |-> <<>>,
                                tool_call_id |-> tool_calls[tc_index].id])
         /\ outcome' = "running" /\ loop_pc' \in {"dispatch", "request"}]_vars

\* The result of an unknown function has been sent back to the provider.
C23_Witness ==
    /\ x_call.name = "no_such_function" /\ x_result.status = "error"
    /\ requests >= 2
    /\ \E i \in 1..Len(dispatched) :
          /\ dispatched[i].name = "no_such_function"
          /\ \E j \in 1..Len(sent) :
                sent[j].role = "tool" /\ sent[j].tool_call_id = dispatched[i].id

\* A complete market_research call made when the daily quota is used up.
ResearchAtExhaustedQuota ==
    /\ x_call.name = "market_research"
    /\ x_call.args.research /\ x_call.args.level.kind # "str"
    /\ x_call.env.search = "exhausted"

\* C24: with the daily quota exhausted market_research returns an error
\* result labelled as quota exhaustion.
C24_QuotaExhaustionIsLabelled ==
    ResearchAtExhaustedQuota =>
        (x_result.status = "error" /\ x_result.kind = "quota_exhausted")

(***************************************************************************)
(* Properties of the cache keys                                            *)
(***************************************************************************)

HasColon(s) == \E i \in 1..Len(s) : s[i] = ":"
ColonFree(t) == ~HasColon(t.prefix) /\ \A i \in 1..Len(t.args) : ~HasColon(t.args[i])

UnderPrefixOf(blob_name, user_id) ==
    /\ Len(blob_name) > Len(user_id)
    /\ \A i \in 1..Len(user_id) : blob_name[i] = user_id[i]
    /\ blob_name[Len(user_id) + 1] = "/"

NamesForeignBlob ==
    /\ x_call.name \in FileFunctions
    /\ x_call.args.filename.kind = "str"
    /\ x_call.args.filename.val \in BlobNames
    /\ ~UnderPrefixOf(x_call.args.filename.val, x_call.args.user_id)

\* C26: a call of analyze_sales_file, query_sales_data or
\* forecast_sales_demand for user U carries data, computed or cached, only of
\* a blob under "U/"; a filename that is the blob of another user gives an
\* error result without data.
C26_FileFunctionsServeOwnBlobsOnly ==
    /\ (x_call.name \in FileFunctions /\ x_result.data_of # NoBlob) =>
            UnderPrefixOf(x_result.data_of, x_call.args.user_id)
    /\ NamesForeignBlob => (x_result.status = "error" /\ x_result.data_of = NoBlob)

\* User u1 names the blob of user u2, which is in the container and has a
\* cached result, and gets an error.
C26_Witness ==
    /\ NamesForeignBlob
    /\ x_call.args.user_id = U1
    /\ x_call.args.filename.val = BlobA2
    /\ BlobA2 \in x_call.env.present
    /\ x_call.env.hit
    /\ x_call.env.fault = "none"
    /\ x_result.status = "error"

(***************************************************************************)
(* Properties of the file endpoints that depend on the order of requests   *)
(***************************************************************************)

\* A request of the kind for the blob had returned success when w picked up
\* its own request.
ReturnedBefore(w, op, blob_name) ==
    \E v \in began[w] :
        /\ req[v].op = op
        /\ req[v].blob_name = blob_name
        /\ req[v].user_id = req[w].user_id
        /\ req[v].status = "200"

\* C27: an analysis requested after the delete of its dataset has returned
\* does not consult the cache and ends with 404 without a result, whatever
\* the cache holds for the dataset.
C27_DeletedDatasetIsNotAnalysed ==
    \A w \in OrderWorkers :
        (req[w].op = "analytics" /\ ReturnedBefore(w, "delete", req[w].blob_name)) =>
            /\ req[w].pc \in {"load", "done"}
            /\ req[w].pc = "done" => (req[w].status = "404" /\ req[w].result = NoValue)

\* An analysis requested after the delete has ended while the cache holds an
\* analysis of the dataset, stored by a request that had loaded the dataset
\* before it was deleted.
C27_Witness ==
    \E w \in OrderWorkers :
        /\ req[w].op = "analytics"
        /\ req[w].blob_name = BlobA1
        /\ ReturnedBefore(w, "delete", BlobA1)
        /\ req[w].pc = "done"
        /\ req[w].status = "404"
        /\ BlobA1 \notin blobs
        /\ Live(store, AnalyticsKey(U1, BlobA1), now)

\* C30: a listing requested after an upload has returned success, its
\* invalidation of the file list included, contains the uploaded file as
\* long as the file is in the container.
C30_ListingAfterUploadHasTheFile ==
    \A w \in OrderWorkers : \A b \in BlobNames :
        (/\ req[w].op = "list"
         /\ req[w].pc = "done"
         /\ req[w].status = "200"
         /\ b \in blobs
         /\ ReturnedBefore(w, "upload", b)
         /\ \A v \in began[w] : req[v].ok) =>
            b \in req[w].result.files

(***************************************************************************)
(* Properties of the rate limit                                            *)
(***************************************************************************)

\* The requests made in the hour that ends with the last request, that
\* request included.
InLastHour ==
    LET last == rl_times[Len(rl_times)]
    IN  {i \in 1..Len(rl_times) : rl_times[i] >= last - HOUR}

\* C28: a request is rejected with 429 only if the user has made more than
\* limit requests within the hour before it.
C28_RejectedOnlyOverTheHourlyLimit ==
    rl_verdict = "429" => Cardinality(InLastHour) > rl_limit

(***************************************************************************)
(* Properties of the loop's error handling                                 *)
(***************************************************************************)

\* C29: an invocation ends with an error only in a step that is a failed
\* provider request; no step that handles a tool call ends it.
C29_OnlyProviderFailureEndsInError ==
    [][(outcome # "raised" /\ outcome' = "raised") => ProviderRequestFailed]_vars

(***************************************************************************)
(* Properties of the rate limiter under concurrency and cache failure      *)
(***************************************************************************)

\* The increments the server ran, and those of the counter's current
\* lifetime at the time of increment i: from the last one that created the
\* counter up to i.
Counted(i) == rl_log[i].usage # NoCount
LifetimeStart(i) ==
    IF \E j \in 1..i : rl_log[j].first
    THEN CHOOSE j \in 1..i : rl_log[j].first /\ \A k \in (j + 1)..i : ~rl_log[k].first
    ELSE 1
RankInLifetime(i) == Cardinality({j \in LifetimeStart(i)..i : Counted(j)})

\* C31: of the requests whose increment the server ran within one lifetime
\* of the counter, exactly the first limit ones are admitted and all later
\* ones are rejected; every one of them, rejected or not, raised the counter
\* by one.
C31_ExactlyTheFirstLimitAdmitted ==
    \A i \in 1..Len(rl_log) :
        Counted(i) =>
            /\ rl_log[i].usage = RankInLifetime(i)
            /\ rl_log[i].verdict = "passed" => RankInLifetime(i) <= rl_limit
            /\ rl_log[i].verdict = "429" => RankInLifetime(i) > rl_limit

\* Two threads are in check_rate_limit at once after the limit was reached:
\* one rejected request and a later one, also rejected, have raised the
\* counter further.
C31_Witness ==
    /\ cache_enabled
    /\ Len(rl_log) >= 3
    /\ \A i \in 1..Len(rl_log) : Counted(i) /\ ~(i > 1 /\ rl_log[i].first)
    /\ \E i \in 1..Len(rl_log) : rl_log[i].verdict = "passed"
    /\ \E i, j \in 1..Len(rl_log) :
          /\ i < j
          /\ rl_log[i].verdict = "429" /\ rl_log[j].verdict = "429"
          /\ rl_log[i].thread # rl_log[j].thread
          /\ rl_log[j].usage > rl_log[i].usage
    /\ store[CounterKey].val = Len(rl_log)

\* C35: a request whose increment gave no count, the cache being disabled
\* or the command failing, is admitted.
C35_NoCountIsAdmitted ==
    \A i \in 1..Len(rl_log) :
        ~Counted(i) => rl_log[i].verdict \in {"pending", "passed"}

\* With the cache disabled every one of the requests of a run was admitted,
\* more of them than the limit.
C35_Witness ==
    /\ ~cache_enabled
    /\ Len(rl_log) = MaxRateRequests
    /\ Len(rl_log) > rl_limit
    /\ \A i \in 1..Len(rl_log) : rl_log[i].verdict = "passed"

(***************************************************************************)
(* Properties of the cached market research                                *)
(***************************************************************************)

\* C32: a cache file holds the result of a pass that obtained search
\* results, and a request answered from the cache gets such a result.
C32_OnlyCompletedPassesAreMemoized ==
    /\ \A k \in ResearchKeys : r_cache[k] # Absent => r_cache[k].val.kind = "research"
    /\ (r_pass.pc = "done" /\ r_pass.source = "cache") => r_pass.result.kind = "research"

\* The request found a cache file for its key that was younger than the
\* expiry when it was made.
FoundUnexpired ==
    /\ r_pass.pc # "idle"
    /\ r_pass.found # Absent
    /\ r_pass.began - r_pass.found.at < CACHE_EXPIRY

\* C34: a request that finds an unexpired cache file for its key returns the
\* cached result without attempting a search and leaves the usage count as
\* it was.
C34_CachedResearchNeedsNoSearch ==
    FoundUnexpired =>
        /\ r_pass.pc = "done"
        /\ r_pass.source = "cache"
        /\ ~r_pass.raised
        /\ r_pass.result = r_pass.found.val
        /\ r_pass.attempted = 0
        /\ usage_data = r_pass.before

\* With the quota exhausted, a request got the analysis of an earlier pass
\* from the cache.
C34_Witness ==
    /\ FoundUnexpired
    /\ r_pass.pc = "done"
    /\ r_pass.result.kind = "research"
    /\ usage_data.date = today
    /\ usage_data.count >= DAILY_LIMIT


\* C33: a search that succeeds raises the search-usage count by exactly
\* one, and a search that is refused for quota or that fails leaves the
\* count as it was.
C33_CountFollowsSuccessfulSearches ==
    [][\A t \in Threads :
          /\ (q_pc[t] = "store" /\ q_pc'[t] = "idle")
                 => usage_data'.count = usage_data.count + 1
          /\ (q_pc[t] \in {"check", "request"} /\ q_pc'[t] = "idle")
                 => usage_data' = usage_data]_vars


(***************************************************************************)
(* Properties of delete_pattern under failure                              *)
(***************************************************************************)

\* The keys a delete_pattern run has removed so far.
DpRemoved == {k \in StoreKeys : Live(dp_before, k, dp_start) /\ ~Live(store, k, now)}

\* C36: delete_pattern always ends, with a number and never with an
\* exception: the scan stops when the cursor is back at 0, and when the
\* backend fails at some batch it returns 0 while the keys the earlier
\* batches deleted stay deleted, so that the number returned can be smaller
\* than the number of keys removed.
C36_DeletePatternEndsWithoutRollback ==
    /\ [](dp_pc = "done" => dp_result \in 0..Cardinality(StoreKeys))
    /\ []((dp_pc = "done" /\ ~dp_failed /\ cache_enabled) => dp_unvisited = {})
    /\ []((dp_pc = "done" /\ dp_failed) => dp_result = 0)
    /\ []((dp_pc = "done" /\ dp_failed /\ now = dp_start)
              => /\ DpRemoved \subseteq DpMatching
                 /\ Cardinality(DpRemoved) = dp_count)
    /\ (dp_pc = "scanning" ~> dp_pc = "done")

\* The backend failed after a batch had deleted a key: 0 is returned and
\* the key is gone.
C36_Witness ==
    /\ dp_pc = "done" /\ dp_failed /\ now = dp_start
    /\ dp_batches >= 1
    /\ dp_result = 0
    /\ Cardinality(DpRemoved) >= 1
    /\ dp_unvisited # {}


(***************************************************************************)
(* Properties of the failing computations                                  *)
(***************************************************************************)

\* C37: a wrapped computation that fails writes nothing to the cache: the
\* step in which an analysis or a forecast ends with an exception, or in
\* which a forecast is rejected for its periods, leaves the store as it
\* was, and every entry that appears in the store is the result of a
\* computation that returned it.
C37_FailedComputationWritesNothing ==
    [][/\ \A w \in Workers :
             (req[w].pc # "done" /\ req'[w].pc = "done" /\ req'[w].status # "200")
                 => store' = store
       /\ \A k \in StoreKeys :
             (store'[k] # store[k] /\ store'[k] # Absent)
                 => \E w \in Workers :
                       /\ req[w].pc = "compute"
                       /\ KeyOf(req[w]) = k
                       /\ req'[w].pc = "done" /\ req'[w].status = "200"
                       /\ store'[k].val = req'[w].result]_vars

\* A forecast missed the cache and raised, and another was rejected for its
\* periods: no forecast is cached.
C37_Witness ==
    /\ cache_enabled
    /\ \E w \in Workers :
          /\ req[w].pc = "done" /\ req[w].op = "forecast" /\ req[w].status = "500"
          /\ req[w].computed = 1 /\ req[w].seen = Absent /\ req[w].ok
          /\ store[KeyOf(req[w])] = Absent
    /\ \E w \in Workers :
          /\ req[w].pc = "done" /\ req[w].status = "error" /\ req[w].arg = 366
    /\ store = EmptyStore


(***************************************************************************)
(* Properties of clear_user_cache                                          *)
(***************************************************************************)

\* The keys of a user in the file-list, analytics, forecast and preview
\* namespaces.
NamespaceKeys(user_id) ==
    {FileListKey(user_id)}
    \cup {AnalyticsKey(user_id, b) : b \in BlobNames}
    \cup {ForecastKey(user_id, b, p) : b \in BlobNames, p \in PeriodChoices}
    \cup {PreviewKey(user_id, b, n) : b \in BlobNames, n \in RowChoices}

\* The entries a clear_user_cache call has removed.
ClearRemoved == {k \in StoreKeys : Live(cu_call.before, k, now) /\ ~Live(store, k, now)}

\* clear_user_cache leaves no entry of the user in the four namespaces and
\* touches no other key.
ClearRemovesOwnEntriesOnly ==
    (cu_call.pc = "done" /\ cache_enabled /\ cu_call.ok)
    => /\ \A k \in NamespaceKeys(cu_call.user_id) : ~Live(store, k, now)
       /\ \A k \in StoreKeys \ NamespaceKeys(cu_call.user_id) :
             store[k] = cu_call.before[k]

\* C38: clear_user_cache(U) on a connected cache whose commands succeed
\* removes every entry of U in the file-list, analytics, forecast and
\* preview namespaces, leaves every other user's entries and every
\* rate-limit counter as they were, and returns as total the number of
\* entries it removed.
C38_ClearCountsWhatItRemoves ==
    (cu_call.pc = "done" /\ cache_enabled /\ cu_call.ok)
    => /\ ClearRemovesOwnEntriesOnly
       /\ cu_call.total = Cardinality(ClearRemoved)


(***************************************************************************)
(* Properties of the usage file                                            *)
(***************************************************************************)

\* C39: the quota counter lives on in its file within a day.  A
\* SearchManager constructed after n successful searches were recorded on
\* the current day starts with count n; one constructed from a file of an
\* earlier day finds the date changed at its first search or usage-stats
\* call, which sets the count to 0 before anything is tested or reported,
\* and the usage statistics report the count as it then is.
C39_CounterSurvivesRestartWithinADay ==
    /\ []((q_call[1] = "constructed" /\ usage_data.date = today)
             => usage_data.count = recorded[today])
    /\ []((q_call[1] = "constructed" /\ usage_file # NoFile)
             => usage_data = usage_file)
    /\ [][(q_call[1] = "constructed" /\ q_pc'[1] # "idle" /\ usage_data.date # today)
             => q_pc'[1] = "reset"]_vars
    /\ [][(q_pc[1] = "reset" /\ q_pc'[1] # "reset")
             => usage_data' = [count |-> 0, date |-> q_today[1]]]_vars
    /\ [][(q_pc[1] = "stats" /\ q_pc'[1] = "idle")
             => q_tmp'[1] = usage_data.count]_vars

\* A search succeeded on the current day and the process was started
\* again: the new SearchManager starts with count 1.
C39_Witness ==
    /\ q_call[1] = "constructed"
    /\ usage_data = [count |-> 1, date |-> today]
    /\ recorded[today] = 1
    /\ started >= 1

====
